---- MODULE Spec2Model ----
(***************************************************************************)
(* Retrieval-and-ranking engine of the code explainer                      *)
(* (src/backend/rag_system.py) with the language classifier it calls       *)
(* (src/backend/fine_tuning.py).                                           *)
(*                                                                         *)
(* Numbers.  Scores and distances are exact rationals kept as integers in  *)
(* units of 1/Scale: 1.0 is Scale, 0.2 is Scale \div 5.  Scale is a        *)
(* multiple of 20 and of every line count that occurs, so every term of    *)
(* the relevance formula is an integer.                                    *)
(*                                                                         *)
(* Text.  A code string is a sequence of tokens; the token NL is the       *)
(* newline character, every other token is a run of characters without a   *)
(* newline.                                                                *)
(***************************************************************************)
EXTENDS Integers, Sequences, FiniteSets, TLC

VARIABLES
    store,            \* the collection: set of stored records, ids unique
    pc,               \* position of the running operation
    query_code,       \* retrieve: argument
    top_k,            \* retrieve: argument
    language,         \* retrieve: argument, then the resolved language
    min_relevance,    \* retrieve: argument
    query_embedding,  \* retrieve: local
    where_filter,     \* retrieve: local
    results,          \* retrieve: candidates of the last store query
    ranked_results,   \* retrieve: local
    result,           \* what the operation returned: its type and value
    outcome,          \* "none", "returned" or "raised" (exception left the operation)
    calls,            \* collaborator calls of the running operation, in order
    batch,            \* add_documents_batch / add_document: argument
    before,           \* add_documents_batch / add_document: store contents at the call
    handle,           \* what self.collection refers to: "live" or "deleted" collection
    reset_pc,         \* reset_collection: position of the call running beside retrieve
    reset_result,     \* reset_collection: what it returned, type and value
    at_reset,         \* history: store contents when the resets met by the running
                      \* operation began
    overlap,          \* history: a reset_collection call ran beside the operation
    reset_before,     \* history: store contents at the call of the running reset_collection
    _rag_system,      \* the module global: <<>> is None, <<object>> a RAGSystem
    self,             \* get_rag_system: the RAGSystem under construction, <<>> if none
    g_pc,             \* get_rag_system: position
    g_ret,            \* get_rag_system: value returned, as _rag_system
    g_log,            \* history: calls of get_rag_system and what they did, in order
    detect_code,      \* detect_language: argument
    detect_ret,       \* detect_language: value returned
    ingest_pc,        \* ingest_documents: position
    reset_collection, \* ingest_documents: argument
    ingest_result,    \* ingest_documents: what it returned, type and value
    ingest_before,    \* history: store contents at the call of ingest_documents
    guard_code,       \* sanitize_code: argument
    guard_result,     \* sanitize_code: what it returned or raised
    max_history,      \* PerformanceMonitor: self.max_history
    request_history,  \* PerformanceMonitor: self.request_history, oldest first
    total_requests,   \* PerformanceMonitor: counter
    successful_requests, \* PerformanceMonitor: counter
    failed_requests,  \* PerformanceMonitor: counter
    total_response_time, \* PerformanceMonitor: sum of the successful response times
    rag_requests,     \* PerformanceMonitor: counter
    basic_requests,   \* PerformanceMonitor: counter
    recorded,         \* history: the requests recorded since construction or the
                      \* last reset_metrics, oldest first
    mon_last,         \* history: the last PerformanceMonitor method called
    limit,            \* get_recent_history: argument
    history_ret,      \* get_recent_history: what the last call returned, if no other
                      \* method of the monitor was called since
    e_pc,             \* explain_code_rag: position
    request_code,     \* explain_code_rag: request.code
    code_to_use,      \* explain_code_rag: local
    retrieved_docs,   \* explain_code_rag: local
    e_retrieved_count, \* explain_code_rag: local retrieved_count
    e_success,        \* explain_code_rag: local success
    error_msg,        \* explain_code_rag: local
    response,         \* explain_code_rag: the HTTP response of the request
    llm_up,           \* environment: the Groq service answers this request's completion call
    llm_calls,        \* history: the prompts the Groq client was called with, in order
    e_mark            \* history: number of requests recorded when the request arrived

resetVars == <<handle, reset_pc, reset_result, at_reset, overlap, reset_before>>

singletonVars == <<_rag_system, self, g_pc, g_ret, g_log>>

detectVars == <<detect_code, detect_ret>>

ingestVars == <<ingest_pc, reset_collection, ingest_result, ingest_before>>

guardVars == <<guard_code, guard_result>>

monitorVars == <<max_history, request_history, total_requests, successful_requests,
                 failed_requests, total_response_time, rag_requests, basic_requests,
                 recorded, mon_last, limit, history_ret>>

endpointVars == <<e_pc, request_code, code_to_use, retrieved_docs, e_retrieved_count,
                  e_success, error_msg, response, llm_up, llm_calls, e_mark>>

laterVars == <<ingestVars, guardVars, monitorVars, endpointVars>>

vars == <<store, pc, query_code, top_k, language, min_relevance, query_embedding,
          where_filter, results, ranked_results, result, outcome, calls, batch, before,
          resetVars, singletonVars, detectVars, laterVars>>

retrieveLocals == <<query_code, top_k, language, min_relevance, query_embedding,
                    where_filter, results, ranked_results>>

----------------------------------------------------------------------------
(* Bounds *)

MaxDocs == 2
MaxTopK == 2
MaxBatch == 2
LargeTopK == 11
MaxCodeLen == 3
MaxCalls == 3
MaxHistory == 2
MaxRequests == 3
MaxLimit == 3
DatasetSize == 1

----------------------------------------------------------------------------
(* Values *)

None == "<None>"
NL == "\n"

Min(a, b) == IF a <= b THEN a ELSE b
Max(a, b) == IF a >= b THEN a ELSE b

\* dict.get(key, default)
Get(d, key, default) == IF key \in DOMAIN d THEN d[key] ELSE default

\* d[key] = value on a dict
Put(d, key, value) ==
    [k \in (DOMAIN d) \cup {key} |-> IF k = key THEN value ELSE d[k]]

----------------------------------------------------------------------------
(* Text *)

\* str.split('\n'): the pieces between newlines; always at least one piece
RECURSIVE split(_)
split(code) ==
    IF \A i \in 1..Len(code) : code[i] # NL
    THEN <<code>>
    ELSE LET i == CHOOSE j \in 1..Len(code) :
                      code[j] = NL /\ \A h \in 1..(j - 1) : code[h] # NL
         IN  <<SubSeq(code, 1, i - 1)>> \o split(SubSeq(code, i + 1, Len(code)))

----------------------------------------------------------------------------
(* Language classifier, fine_tuning.py *)

\* The pattern lists, in definition order; pattern i of a language is <<language, i>>
LANGUAGE_PATTERNS ==
    << [language |-> "python",     patterns |-> 5],
       [language |-> "javascript", patterns |-> 5],
       [language |-> "typescript", patterns |-> 3],
       [language |-> "java",       patterns |-> 4],
       [language |-> "cpp",        patterns |-> 4],
       [language |-> "c",          patterns |-> 4],
       [language |-> "go",         patterns |-> 4],
       [language |-> "rust",       patterns |-> 4] >>

\* The patterns a token matches
TokenPatterns(tok) ==
    CASE tok = "def f("     -> {<<"python", 1>>}
      [] tok = "import os"  -> {<<"python", 2>>}
      [] tok = "public class A" -> {<<"java", 1>>}
      [] tok = "void f("    -> {<<"java", 2>>}
      [] tok = "#include <" -> {<<"cpp", 1>>, <<"c", 1>>}
      [] OTHER              -> {}

\* re.search(pattern, code, re.MULTILINE | re.IGNORECASE) is not None
re_search(pattern, code) == \E i \in 1..Len(code) : pattern \in TokenPatterns(code[i])

\* sum(1 for pattern in patterns if re.search(...))
PatternScore(entry, code) ==
    Cardinality({i \in 1..entry.patterns : re_search(<<entry.language, i>>, code)})

\* A scan in which the last language with the highest score wins
RECURSIVE MutBestLanguageLast(_, _, _, _)
MutBestLanguageLast(code, i, best, bestScore) ==
    IF i > Len(LANGUAGE_PATTERNS) THEN best
    ELSE LET score == PatternScore(LANGUAGE_PATTERNS[i], code)
         IN  IF score > 0 /\ score >= bestScore
             THEN MutBestLanguageLast(code, i + 1, LANGUAGE_PATTERNS[i].language, score)
             ELSE MutBestLanguageLast(code, i + 1, best, bestScore)

\* max(scores.items(), key=score)[0] over the languages scanned so far:
\* the first language with the highest score wins
RECURSIVE BestLanguage(_, _, _, _)
BestLanguage(code, i, best, bestScore) ==
    IF i > Len(LANGUAGE_PATTERNS) THEN best
    ELSE LET score == PatternScore(LANGUAGE_PATTERNS[i], code)
         IN  IF score > 0 /\ score > bestScore
             THEN BestLanguage(code, i + 1, LANGUAGE_PATTERNS[i].language, score)
             ELSE BestLanguage(code, i + 1, best, bestScore)

detect_language(code) == BestLanguage(code, 1, "unknown", 0)

----------------------------------------------------------------------------
(* Inputs *)

PyCode     == <<"def f(">>
PyCode2    == <<"def f(", NL, "x">>
JavaCode   == <<"void f(", NL, "x">>
PlainCode  == <<"x", NL, "x", NL, "x">>
PlainCode1 == <<"x">>

\* Tokens of the codes given to the classifier alone
DetectTokens == {"def f(", "import os", "public class A", "void f(", "#include <", "x", NL}

\* Codes of 1..MaxCodeLen tokens
DetectCodes == UNION {[1..n -> DetectTokens] : n \in 1..MaxCodeLen}

\* Documents offered to ingestion: dicts with 'code', 'explanation', 'metadata'
\* and, for one of them, 'id'; two of them have the same code
DocPool ==
    { [code |-> PyCode2,   explanation |-> "e1", metadata |-> [language |-> "python"]],
      [code |-> JavaCode,  explanation |-> "e2", metadata |-> [language |-> "java"],
       id |-> <<"id", <<"java_singleton">>>>],
      [code |-> PlainCode, explanation |-> "e3", metadata |-> [language |-> "unknown"]],
      [code |-> PlainCode1, explanation |-> "e4", metadata |-> [category |-> "misc"]],
      [code |-> PlainCode1, explanation |-> "e5", metadata |-> [language |-> "java"]] }

QueryCodes == {PyCode, PlainCode1}

\* language arguments; no offered document is written in go
LanguageArgs == {None, "python", "unknown", "go"}

\* top_k arguments up to the number of stored documents
TopKs == {1, MaxTopK}

AllCodes == QueryCodes \cup {d.code : d \in DocPool}

RECURSIVE Product(_)
Product(S) == IF S = {} THEN 1 ELSE LET x == CHOOSE y \in S : TRUE IN x * Product(S \ {x})

\* One unit of score is 1/Scale
Scale == 20 * Product({Len(split(c)) : c \in AllCodes})

\* A query that lies at distance 0.2 from every document
CloseCode == <<"void f(">>

\* Distances the store reports for the query of the running retrieve: 0.2 for
\* CloseCode; 0, 0.3, 0.4 and 1.2 for any other query
Distances ==
    IF query_code = CloseCode
    THEN {(2 * Scale) \div 10}
    ELSE {0, (3 * Scale) \div 10, (4 * Scale) \div 10, (12 * Scale) \div 10}

RELEVANCE_THRESHOLD == (65 * Scale) \div 100

\* min_relevance arguments given explicitly (0 and 0.9); 0.65 is the default
MinRelevances == {0, (9 * Scale) \div 10}

----------------------------------------------------------------------------
(* Embedder and document store (external collaborators) *)

\* SentenceTransformer.encode(text).tolist(): a non-empty vector fixed by the text
Encode(text) == <<text>>

\* generate_embedding: the vector, or [] when encode raised
generate_embedding(text) == {Encode(text), <<>>}

\* An id that ignores the text
MutMd5Constant(code) == <<"md5", <<>>>>

\* hashlib.md5(code.encode()).hexdigest()[:16]
Md5Prefix(code) == <<"md5", code>>

\* doc_id = None and doc_id = '', the ids that "if not doc_id" takes as missing
NoId == <<"none", <<>>>>
EmptyId == <<"id", <<>>>>

NoFilter == "<no filter>"

\* Records a query with this filter can return
Matching(st, where) ==
    {r \in st : where = NoFilter
                  \/ ("language" \in DOMAIN r.metadata /\ r.metadata["language"] = where)}

IsInjective(f) == \A i, j \in DOMAIN f : f[i] = f[j] => i = j

\* collection.query(query_embeddings, n_results, where, include): the nearest
\* min(n_results, matching) records, nearest first, ties in any order, as
\* parallel lists; any distance can be reported for any record
StoreQuery(st, n_results, where) ==
    LET match == Matching(st, where)
        m     == Min(n_results, Cardinality(match))
    IN  { [documents |-> [i \in 1..m |-> rs[i].document],
           metadatas |-> [i \in 1..m |-> rs[i].metadata],
           distances |-> ds] :
            rs \in {f \in [1..m -> match] : IsInjective(f)},
            ds \in {g \in [1..m -> Distances] :
                        \A i \in 1..m, j \in 1..m : i < j => g[i] <= g[j]} }

\* res \in StoreQuery(st, n_results, where), decided without building the set
IsStoreQuery(res, st, n_results, where) ==
    LET match == Matching(st, where)
        m     == Min(n_results, Cardinality(match))
    IN  /\ res.distances \in [1..m -> Distances]
        /\ \A i \in 1..m, j \in 1..m : i < j => res.distances[i] <= res.distances[j]
        /\ \E rs \in {f \in [1..m -> match] : IsInjective(f)} :
              /\ res.documents = [i \in 1..m |-> rs[i].document]
              /\ res.metadatas = [i \in 1..m |-> rs[i].metadata]

\* collection.add(embeddings, documents, metadatas, ids) that does not raise:
\* the records are written positionally; an id already stored keeps its record
StoreAdd(st, embeddings, documents, metadatas, ids) ==
    st \cup { [id |-> ids[i], document |-> documents[i],
               metadata |-> metadatas[i], embedding |-> embeddings[i]] :
              i \in {j \in 1..Len(ids) : \A r \in st : r.id # ids[j]} }

\* Whether collection.add raises: it may always raise (store unreachable), it
\* raises on ids repeated within the call, and it alone decides whether an
\* empty vector is refused
StoreAddRaises(embeddings, ids) ==
    IF handle # "live" \/ ~IsInjective(ids) THEN {TRUE} ELSE {TRUE, FALSE}

----------------------------------------------------------------------------
(* Relevance, rag_system.py *)

\* A language bonus of 0.05, below the length bonus
MutLangBonusSmall == Scale \div 20

\* "lang_bonus = 0.2 if ..."
LANG_BONUS == Scale \div 5

\* _calculate_relevance returning total_score without "min(1.0, ...)"
MutRelevanceNoClamp(query, doc, metadata, distance, query_language) ==
    LET similarity   == Max(0, Scale - distance)
        doc_language == Get(metadata, "language", "")
        lang_bonus   == IF doc_language = query_language THEN LANG_BONUS ELSE 0
        query_lines  == Len(split(query))
        doc_lines    == Len(split(doc))
        length_bonus == ((Scale \div 10) * Min(query_lines, doc_lines))
                            \div Max(query_lines, doc_lines)
    IN  similarity + lang_bonus + length_bonus

\* _calculate_relevance with "similarity = 1 - distance", no "max(0, ...)"
MutRelevanceNoFloor(query, doc, metadata, distance, query_language) ==
    LET similarity   == Scale - distance
        doc_language == Get(metadata, "language", "")
        lang_bonus   == IF doc_language = query_language THEN LANG_BONUS ELSE 0
        query_lines  == Len(split(query))
        doc_lines    == Len(split(doc))
        length_bonus == ((Scale \div 10) * Min(query_lines, doc_lines))
                            \div Max(query_lines, doc_lines)
    IN  Min(Scale, similarity + lang_bonus + length_bonus)

\* RAGSystem._calculate_relevance
_calculate_relevance(query, doc, metadata, distance, query_language) ==
    LET similarity   == Max(0, Scale - distance)
        doc_language == Get(metadata, "language", "")
        lang_bonus   == IF doc_language = query_language THEN LANG_BONUS ELSE 0
        query_lines  == Len(split(query))
        doc_lines    == Len(split(doc))
        length_bonus == IF Max(query_lines, doc_lines) > 0
                        THEN ((Scale \div 10) * Min(query_lines, doc_lines))
                                 \div Max(query_lines, doc_lines)
                        ELSE 0
        total_score  == similarity + lang_bonus + length_bonus
    IN  Min(Scale, total_score)

\* _process_results without its sort
MutSortNone(s) == s

\* A sort that puts the later of two equal scores first
RECURSIVE MutSortUnstable(_)
MutSortUnstable(s) ==
    IF s = <<>> THEN <<>>
    ELSE LET sorted == MutSortUnstable(SubSeq(s, 1, Len(s) - 1))
             x      == s[Len(s)]
             k      == Cardinality({i \in 1..Len(sorted) :
                                       sorted[i].relevance_score > x.relevance_score})
         IN  SubSeq(sorted, 1, k) \o <<x>> \o SubSeq(sorted, k + 1, Len(sorted))

\* list.sort(key=relevance_score, reverse=True): stable, equal scores keep
\* their order
RECURSIVE SortByRelevance(_)
SortByRelevance(s) ==
    IF s = <<>> THEN <<>>
    ELSE LET sorted == SortByRelevance(SubSeq(s, 1, Len(s) - 1))
             x      == s[Len(s)]
             k      == Cardinality({i \in 1..Len(sorted) :
                                       sorted[i].relevance_score >= x.relevance_score})
         IN  SubSeq(sorted, 1, k) \o <<x>> \o SubSeq(sorted, k + 1, Len(sorted))

\* RAGSystem._process_results
_process_results(res, query, query_language) ==
    LET documents == res.documents
        metadatas == res.metadatas
        distances == res.distances
        n         == Min(Len(documents), Min(Len(metadatas), Len(distances)))
        processed ==
            [i \in 1..n |->
                [code            |-> documents[i],
                 explanation     |-> Get(metadatas[i], "explanation", ""),
                 language        |-> Get(metadatas[i], "language", "unknown"),
                 category        |-> Get(metadatas[i], "category", "general"),
                 metadata        |-> metadatas[i],
                 relevance_score |-> _calculate_relevance(query, documents[i],
                                        metadatas[i], distances[i], query_language),
                 distance        |-> distances[i]]]
    IN  SortByRelevance(processed)

\* The threshold filter with ">" for ">="
RECURSIVE MutFilterStrict(_, _)
MutFilterStrict(ranked, minRel) ==
    IF ranked = <<>> THEN <<>>
    ELSE (IF Head(ranked).relevance_score > minRel THEN <<Head(ranked)>> ELSE <<>>)
            \o MutFilterStrict(Tail(ranked), minRel)

\* [r for r in ranked_results if r['relevance_score'] >= min_relevance]
RECURSIVE FilterByRelevance(_, _)
FilterByRelevance(ranked, minRel) ==
    IF ranked = <<>> THEN <<>>
    ELSE (IF Head(ranked).relevance_score >= minRel THEN <<Head(ranked)>> ELSE <<>>)
            \o FilterByRelevance(Tail(ranked), minRel)

\* filtered_results[:top_k], top_k >= 0
Truncate(s, k) == SubSeq(s, 1, Min(k, Len(s)))

\* retrieve without its check of count()
MutCollectionNeverEmpty(count) == FALSE

\* self.collection.count() == 0
CollectionEmpty(count) == count = 0

\* retrieve without its check of the query embedding
MutEmbeddingNeverFailed(embedding) == FALSE

\* not query_embedding / not embedding
EmbeddingFailed(embedding) == embedding = <<>>

\* language after "if not language: language = detect_language(query_code)"
ResolveLanguage(lang, code) == IF lang = None THEN detect_language(code) ELSE lang

\* retrieve that never filters by language
MutWhereNone(lang) == NoFilter

\* where_filter
WhereFilter(lang) == IF lang # None /\ lang # "unknown" THEN lang ELSE NoFilter

\* n_results without the cap
MutNResultsNoCap(k) == k * 2

\* n_results of both queries
NResults(k) == Min(k * 2, 20)

\* retrieve without the second query
MutNoFallback(res, where) == FALSE

MutFallbackAlways(res, where) == TRUE

\* not results['documents'][0] and where_filter
NeedFallback(res, where) == res.documents = <<>> /\ where # NoFilter

----------------------------------------------------------------------------
(* State machine *)

NoValue == "<none>"

\* What an operation returned: nothing yet, a list, or a boolean
NoResult == [type |-> "none"]
ListResult(value) == [type |-> "list", value |-> value]
BoolResult(value) == [type |-> "bool", value |-> value]

\* The value returned by the operation
ret == result.value

\* The value returned by reset_collection
reset_ret == reset_result.value

\* collection.query(...) not made yet
NoResults == [documents |-> <<>>, metadatas |-> <<>>, distances |-> <<>>]

\* collection.count() / collection.query(...) raises: always on a deleted
\* collection, and for the store's own reasons otherwise
StoreReadRaises == IF handle # "live" THEN {TRUE} ELSE {TRUE, FALSE}

\* ingest_documents resets, then ingests, in one thread: no reset is running
\* when an ingestion begins
Serialized == reset_pc = "idle"

\* No reset_collection call is running and the collection exists
ResetIdle ==
    /\ handle = "live"
    /\ reset_pc = "idle"
    /\ reset_result = NoResult
    /\ at_reset = {}
    /\ overlap = FALSE
    /\ reset_before = {}

\* The RAGSystem object after a complete _initialize
Initialized(serial) ==
    [serial |-> serial, client |-> TRUE, collection |-> TRUE, embedding_model |-> TRUE]

\* get_rag_system has built the RAGSystem the operations run on
SingletonReady ==
    /\ _rag_system = <<Initialized(1)>>
    /\ self = <<>>
    /\ g_pc = "idle"
    /\ g_ret = <<>>
    /\ g_log = <<>>

\* No detect_language call of its own is running
DetectIdle ==
    /\ detect_code = <<>>
    /\ detect_ret = NoValue

\* The RAGSystem right after construction, no operation running
RagIdle ==
    /\ store = {}
    /\ pc = "idle"
    /\ query_code = <<>>
    /\ top_k = 0
    /\ language = NoValue
    /\ min_relevance = 0
    /\ query_embedding = <<>>
    /\ where_filter = NoValue
    /\ results = NoResults
    /\ ranked_results = <<>>
    /\ result = NoResult
    /\ outcome = "none"
    /\ calls = <<>>
    /\ batch = <<>>
    /\ before = {}

\* ingest_documents is not running
IngestIdle ==
    /\ ingest_pc = "idle"
    /\ reset_collection = FALSE
    /\ ingest_result = NoResult
    /\ ingest_before = {}

\* sanitize_code is not running
GuardIdle ==
    /\ guard_code = <<>>
    /\ guard_result = NoResult

\* PerformanceMonitor(m): __init__
NewMonitor(m) ==
    /\ max_history = m
    /\ request_history = <<>>
    /\ total_requests = 0
    /\ successful_requests = 0
    /\ failed_requests = 0
    /\ total_response_time = 0
    /\ rag_requests = 0
    /\ basic_requests = 0
    /\ recorded = <<>>
    /\ mon_last = "__init__"
    /\ limit = 0
    /\ history_ret = NoResult

\* the global monitor, no request recorded yet
MonitorIdle == NewMonitor(MaxHistory)

\* no HTTP response yet
NoResponse == [status |-> 0, explanation |-> "", detail |-> ""]

\* explain_code_rag is not running
EndpointIdle ==
    /\ e_pc = "idle"
    /\ request_code = <<>>
    /\ code_to_use = <<>>
    /\ retrieved_docs = <<>>
    /\ e_retrieved_count = 0
    /\ e_success = FALSE
    /\ error_msg = None
    /\ response = NoResponse
    /\ llm_up = FALSE
    /\ llm_calls = <<>>
    /\ e_mark = 0

LaterIdle == IngestIdle /\ GuardIdle /\ MonitorIdle /\ EndpointIdle

Init == RagIdle /\ ResetIdle /\ SingletonReady /\ DetectIdle /\ LaterIdle

\* An except clause that raises again
MutHandlerRaise == [ret |-> NoResult, outcome |-> "raised"]

\* "except Exception as e: ... return []" of retrieve
RetrieveHandler == [ret |-> ListResult(<<>>), outcome |-> "returned"]

\* "except Exception as e: ... return False" of add_documents_batch
BatchHandler == [ret |-> BoolResult(FALSE), outcome |-> "returned"]

\* A caller invokes rag.retrieve(q, k, lang, minRel); omitted tells whether
\* the min_relevance argument was left to its default
Retrieve(q, k, lang, minRel, omitted) ==
    /\ pc = "idle"
    /\ pc' = "count"
    /\ query_code' = q
    /\ top_k' = k
    /\ language' = lang
    /\ min_relevance' = IF omitted THEN RELEVANCE_THRESHOLD ELSE minRel
    /\ calls' = <<[op |-> "retrieve", min_relevance_omitted |-> omitted, language |-> lang]>>
    /\ UNCHANGED <<store, query_embedding, where_filter, results, ranked_results,
                   result, outcome, batch, before>>
    /\ overlap' = (reset_pc # "idle")
    /\ UNCHANGED <<handle, reset_pc, reset_result, at_reset, reset_before, singletonVars, detectVars, laterVars>>

\* retrieve, "if self.collection.count() == 0: return []"
RetrieveCount ==
    /\ pc = "count"
    /\ \E raised \in StoreReadRaises :
        /\ calls' = Append(calls, [op |-> "count", raised |-> raised])
        /\ IF raised
           THEN /\ pc' = "except"
                /\ UNCHANGED <<result, outcome>>
           ELSE IF CollectionEmpty(Cardinality(store))
           THEN /\ pc' = "done"
                /\ result' = ListResult(<<>>)
                /\ outcome' = "returned"
           ELSE /\ pc' = "embed"
                /\ UNCHANGED <<result, outcome>>
    /\ UNCHANGED <<store, retrieveLocals, batch, before>>
    /\ UNCHANGED <<resetVars, singletonVars, detectVars, laterVars>>

\* retrieve, "query_embedding = self.generate_embedding(query_code)" and its check
RetrieveEmbed ==
    /\ pc = "embed"
    /\ \E e \in generate_embedding(query_code) :
        /\ query_embedding' = e
        /\ calls' = Append(calls, [op |-> "embed", text |-> query_code, vector |-> e])
        /\ IF EmbeddingFailed(e)
           THEN /\ pc' = "done"
                /\ result' = ListResult(<<>>)
                /\ outcome' = "returned"
           ELSE /\ pc' = "query"
                /\ UNCHANGED <<result, outcome>>
    /\ UNCHANGED <<store, query_code, top_k, language, min_relevance, where_filter,
                   results, ranked_results, batch, before>>
    /\ UNCHANGED <<resetVars, singletonVars, detectVars, laterVars>>

\* retrieve, language detection, filter and the first collection.query
RetrieveQuery ==
    /\ pc = "query"
    /\ LET lang     == ResolveLanguage(language, query_code)
           where    == WhereFilter(lang)
           classify == IF language = None THEN <<[op |-> "classify", text |-> query_code]>>
                       ELSE <<>>
       IN  /\ language' = lang
           /\ where_filter' = where
           /\ \/ /\ calls' = calls \o classify \o
                        <<[op |-> "query", n_results |-> NResults(top_k),
                           where |-> where, raised |-> TRUE]>>
                 /\ pc' = "except"
                 /\ UNCHANGED results
              \/ \E res \in StoreQuery(store, NResults(top_k), where) :
                    /\ FALSE \in StoreReadRaises
                    /\ calls' = calls \o classify \o
                           <<[op |-> "query", n_results |-> NResults(top_k),
                              where |-> where, raised |-> FALSE]>>
                    /\ results' = res
                    /\ pc' = IF NeedFallback(res, where) THEN "fallback" ELSE "rank"
    /\ UNCHANGED <<store, query_code, top_k, min_relevance, query_embedding,
                   ranked_results, result, outcome, batch, before>>
    /\ UNCHANGED <<resetVars, singletonVars, detectVars, laterVars>>

\* retrieve, the second collection.query, without the filter
RetrieveFallback ==
    /\ pc = "fallback"
    /\ \/ /\ calls' = Append(calls, [op |-> "query", n_results |-> NResults(top_k),
                                     where |-> NoFilter, raised |-> TRUE])
          /\ pc' = "except"
          /\ UNCHANGED results
       \/ \E res \in StoreQuery(store, NResults(top_k), NoFilter) :
             /\ FALSE \in StoreReadRaises
             /\ calls' = Append(calls, [op |-> "query", n_results |-> NResults(top_k),
                                        where |-> NoFilter, raised |-> FALSE])
             /\ results' = res
             /\ pc' = "rank"
    /\ UNCHANGED <<store, query_code, top_k, language, min_relevance, query_embedding,
                   where_filter, ranked_results, result, outcome, batch, before>>
    /\ UNCHANGED <<resetVars, singletonVars, detectVars, laterVars>>

\* retrieve, _process_results, the threshold filter and the truncation
RetrieveRank ==
    /\ pc = "rank"
    /\ LET ranked == _process_results(results, query_code, language)
       IN  /\ ranked_results' = ranked
           /\ result' = ListResult(Truncate(FilterByRelevance(ranked, min_relevance), top_k))
    /\ outcome' = "returned"
    /\ pc' = "done"
    /\ UNCHANGED <<store, query_code, top_k, language, min_relevance, query_embedding,
                   where_filter, results, calls, batch, before>>
    /\ UNCHANGED <<resetVars, singletonVars, detectVars, laterVars>>

\* retrieve, the except clause
RetrieveExcept ==
    /\ pc = "except"
    /\ result' = RetrieveHandler.ret
    /\ outcome' = RetrieveHandler.outcome
    /\ pc' = "done"
    /\ UNCHANGED <<store, retrieveLocals, calls, batch, before>>
    /\ UNCHANGED <<resetVars, singletonVars, detectVars, laterVars>>

\* Ids taken from a counter instead of the content
MutIdsByCount(documents) ==
    [i \in 1..Len(documents) |-> <<"n", Cardinality(store) + i>>]

\* The parallel lists add_documents_batch builds from its argument
BatchIds(documents) ==
    [i \in 1..Len(documents) |-> Get(documents[i], "id", Md5Prefix(documents[i].code))]

BatchCodes(documents) == [i \in 1..Len(documents) |-> documents[i].code]

\* metadatas: the list holds the documents' own dict objects, and
\* "metadata['explanation'] = doc['explanation']" writes into them, so a dict
\* shared by several documents ends with the explanation written last
BatchMetadatas(documents) ==
    [i \in 1..Len(documents) |->
        LET last == CHOOSE j \in 1..Len(documents) :
                        /\ documents[j].metadata_id = documents[i].metadata_id
                        /\ \A h \in (j + 1)..Len(documents) :
                              documents[h].metadata_id # documents[i].metadata_id
        IN  Put(Get(documents[i], "metadata", <<>>), "explanation",
                documents[last].explanation)]

\* [self.generate_embedding(code) for code in codes], failed being the
\* positions where encode raised
BatchEmbeddings(codes, failed) ==
    [i \in 1..Len(codes) |-> IF i \in failed THEN <<>> ELSE Encode(codes[i])]

\* The dict objects of a batch: objects[i] is the first position whose
\* 'metadata' is the same object as that of position i
MetadataObjects(docs) ==
    {objects \in [1..Len(docs) -> 1..Len(docs)] :
        \A i \in 1..Len(docs) :
            /\ objects[i] <= i
            /\ objects[objects[i]] = objects[i]
            /\ docs[objects[i]].metadata = docs[i].metadata}

\* A document with metadata_id, the identity id(doc['metadata']) of its dict
\* object
WithMetadataId(doc, object) ==
    IF "id" \in DOMAIN doc
    THEN [code |-> doc.code, explanation |-> doc.explanation, metadata |-> doc.metadata,
          id |-> doc.id, metadata_id |-> object]
    ELSE [code |-> doc.code, explanation |-> doc.explanation, metadata |-> doc.metadata,
          metadata_id |-> object]

\* Arguments of add_documents_batch: 1..MaxBatch documents of the pool
Batches ==
    UNION {{[i \in 1..Len(docs) |-> WithMetadataId(docs[i], objects[i])] :
               objects \in MetadataObjects(docs)} :
           docs \in UNION {[1..n -> DocPool] : n \in 1..MaxBatch}}

\* rag.add_documents_batch(documents), the whole call
AddDocumentsBatch(documents) ==
    /\ pc = "idle"
    /\ Serialized
    /\ LET ids       == BatchIds(documents)
           codes     == BatchCodes(documents)
           metadatas == BatchMetadatas(documents)
       IN  \E failed \in SUBSET (1..Len(codes)) :
           \E raised \in StoreAddRaises(BatchEmbeddings(codes, failed), ids) :
           LET embeddings == BatchEmbeddings(codes, failed) IN
              /\ \A i \in 1..Len(codes) : embeddings[i] \in generate_embedding(codes[i])
              /\ Cardinality(StoreAdd(store, embeddings, codes, metadatas, ids)) <= MaxDocs
              /\ calls' = [i \in 1..Len(codes) |->
                              [op |-> "embed", text |-> codes[i], vector |-> embeddings[i]]]
                          \o <<[op |-> "add", embeddings |-> embeddings, documents |-> codes,
                                metadatas |-> metadatas, ids |-> ids, raised |-> raised]>>
              /\ IF raised
                 THEN /\ result' = BatchHandler.ret
                      /\ outcome' = BatchHandler.outcome
                      /\ UNCHANGED store
                 ELSE /\ store' = StoreAdd(store, embeddings, codes, metadatas, ids)
                      /\ result' = BoolResult(TRUE)
                      /\ outcome' = "returned"
    /\ batch' = documents
    /\ before' = store
    /\ pc' = "add_done"
    /\ UNCHANGED retrieveLocals
    /\ UNCHANGED <<resetVars, singletonVars, detectVars, laterVars>>

\* rag.add_document(code, explanation, metadata, doc_id), the whole call; the
\* arguments are the fields of doc, doc_id being omitted when doc has no 'id'
AddDocument(doc) ==
    /\ pc = "idle"
    /\ Serialized
    /\ \E embedding \in generate_embedding(doc.code) :
          LET given    == Get(doc, "id", NoId)
              doc_id   == IF given \in {NoId, EmptyId}
                          THEN Md5Prefix(doc.code)
                          ELSE given
              metadata == Put(doc.metadata, "explanation", doc.explanation)
              embed    == [op |-> "embed", text |-> doc.code, vector |-> embedding]
          IN  IF EmbeddingFailed(embedding)
              THEN /\ calls' = <<embed>>
                   /\ result' = BoolResult(FALSE)
                   /\ outcome' = "returned"
                   /\ UNCHANGED store
              ELSE \E raised \in StoreAddRaises(<<embedding>>, <<doc_id>>) :
                   /\ Cardinality(StoreAdd(store, <<embedding>>, <<doc.code>>,
                                           <<metadata>>, <<doc_id>>)) <= MaxDocs
                   /\ calls' = <<embed,
                                 [op |-> "add", embeddings |-> <<embedding>>,
                                  documents |-> <<doc.code>>, metadatas |-> <<metadata>>,
                                  ids |-> <<doc_id>>, raised |-> raised]>>
                   /\ IF raised
                      THEN /\ result' = BoolResult(FALSE)
                           /\ outcome' = "returned"
                           /\ UNCHANGED store
                      ELSE /\ store' = StoreAdd(store, <<embedding>>, <<doc.code>>,
                                                <<metadata>>, <<doc_id>>)
                           /\ result' = BoolResult(TRUE)
                           /\ outcome' = "returned"
    /\ batch' = <<WithMetadataId(doc, 1)>>
    /\ before' = store
    /\ pc' = "add_document_done"
    /\ UNCHANGED retrieveLocals
    /\ UNCHANGED <<resetVars, singletonVars, detectVars, laterVars>>

\* The caller takes the result; the operation's locals are gone
Return ==
    /\ pc \in {"done", "add_done", "add_document_done"}
    /\ pc' = "idle"
    /\ query_code' = <<>>
    /\ top_k' = 0
    /\ language' = NoValue
    /\ min_relevance' = 0
    /\ query_embedding' = <<>>
    /\ where_filter' = NoValue
    /\ results' = NoResults
    /\ ranked_results' = <<>>
    /\ result' = NoResult
    /\ outcome' = "none"
    /\ calls' = <<>>
    /\ batch' = <<>>
    /\ before' = {}
    /\ overlap' = FALSE
    /\ at_reset' = IF reset_pc = "idle" THEN {} ELSE store
    /\ UNCHANGED <<store, handle, reset_pc, reset_result, reset_before, singletonVars, detectVars, laterVars>>

\* Every argument list with a small top_k, and top_k beyond the cap of
\* n_results with the other arguments left out
CallRetrieve ==
    \/ \E q \in QueryCodes, k \in TopKs, lang \in LanguageArgs :
          \/ \E minRel \in MinRelevances : Retrieve(q, k, lang, minRel, FALSE)
          \/ Retrieve(q, k, lang, 0, TRUE)
    \/ \E q \in QueryCodes : Retrieve(q, LargeTopK, None, 0, TRUE)

CallAddDocumentsBatch == \E documents \in Batches : AddDocumentsBatch(documents)

CallAddDocument == \E doc \in DocPool : AddDocument(doc)

Next ==
    \/ CallRetrieve
    \/ RetrieveCount
    \/ RetrieveEmbed
    \/ RetrieveQuery
    \/ RetrieveFallback
    \/ RetrieveRank
    \/ RetrieveExcept
    \/ CallAddDocumentsBatch
    \/ CallAddDocument
    \/ Return

Spec == Init /\ [][Next]_vars

----------------------------------------------------------------------------
(* reset_collection running beside the operations *)

\* A retrieve call is between its first statement and its return
RetrieveRunning == pc \in {"count", "embed", "query", "fallback", "rank", "except"}

resetFrame == <<pc, retrieveLocals, result, outcome, calls, batch, before,
                singletonVars, detectVars, laterVars>>

\* Another thread invokes rag.reset_collection()
ResetCollection ==
    /\ reset_pc = "idle"
    /\ reset_pc' = "delete"
    /\ reset_result' = NoResult
    /\ at_reset' = IF overlap THEN at_reset \cup store ELSE store
    /\ overlap' = (overlap \/ RetrieveRunning)
    /\ reset_before' = store
    /\ UNCHANGED <<store, handle, resetFrame>>

\* "except Exception as e: ... return False" of reset_collection
ResetHandler == BoolResult(FALSE)

\* self.client.delete_collection(COLLECTION_NAME): raises when the collection
\* does not exist, and for the store's own reasons
ResetDelete ==
    /\ reset_pc = "delete"
    /\ \E raised \in StoreReadRaises :
          IF raised
          THEN /\ reset_pc' = "done"
               /\ reset_result' = ResetHandler
               /\ UNCHANGED <<store, handle>>
          ELSE /\ reset_pc' = "create"
               /\ store' = {}
               /\ handle' = "deleted"
               /\ UNCHANGED reset_result
    /\ overlap' = (overlap \/ RetrieveRunning)
    /\ UNCHANGED <<at_reset, reset_before, resetFrame>>

\* self.collection = self.client.get_or_create_collection(...); return True
ResetCreate ==
    /\ reset_pc = "create"
    /\ \E raised \in BOOLEAN :
          IF raised
          THEN /\ reset_result' = ResetHandler
               /\ UNCHANGED handle
          ELSE /\ reset_result' = BoolResult(TRUE)
               /\ handle' = "live"
    /\ reset_pc' = "done"
    /\ overlap' = (overlap \/ RetrieveRunning)
    /\ UNCHANGED <<store, at_reset, reset_before, resetFrame>>

\* The caller of reset_collection takes the result
ResetReturn ==
    /\ reset_pc = "done"
    /\ reset_pc' = "idle"
    /\ reset_result' = NoResult
    /\ at_reset' = IF overlap THEN at_reset ELSE {}
    /\ reset_before' = {}
    /\ UNCHANGED <<store, handle, overlap, resetFrame>>

NextReset ==
    \/ CallRetrieve
    \/ RetrieveCount
    \/ RetrieveEmbed
    \/ RetrieveQuery
    \/ RetrieveFallback
    \/ RetrieveRank
    \/ RetrieveExcept
    \/ CallAddDocument
    \/ Return
    \/ ResetCollection
    \/ ResetDelete
    \/ ResetCreate
    \/ ResetReturn

SpecReset == Init /\ [][NextReset]_vars

----------------------------------------------------------------------------
(* ingest_documents, ingest_documents.py *)

\* CODE_EXPLANATION_DATASET: items with unique ids
DatasetItems ==
    << [id |-> "py_quicksort", language |-> "python", category |-> "algorithms",
        subcategory |-> "sorting", difficulty |-> "intermediate",
        code |-> PyCode2, explanation |-> "e1"],
       [id |-> "java_singleton", language |-> "java", category |-> "design_patterns",
        subcategory |-> "creational", difficulty |-> "intermediate",
        code |-> JavaCode, explanation |-> "e2"] >>

\* get_dataset(), cut to DatasetSize items
get_dataset == SubSeq(DatasetItems, 1, DatasetSize)

\* "for item in dataset: doc = {...}; documents.append(doc)": every document
\* gets a metadata dict of its own
IngestBatch ==
    [i \in 1..Len(get_dataset) |->
        LET item == get_dataset[i]
        IN  [id |-> <<"id", <<item.id>>>>,
             code |-> item.code,
             explanation |-> item.explanation,
             metadata |-> [language |-> item.language,
                           category |-> item.category,
                           subcategory |-> Get(item, "subcategory", ""),
                           difficulty |-> Get(item, "difficulty", "unknown")],
             metadata_id |-> i]]

\* test_code = "def quicksort(arr): pass"
TestCode == PyCode

ingestFrame == <<store, pc, retrieveLocals, result, outcome, calls, batch, before,
                 resetVars, singletonVars, detectVars, guardVars, monitorVars,
                 endpointVars>>

\* "except Exception as e: ... return False" of ingest_documents
IngestHandler == BoolResult(FALSE)

\* A caller invokes ingest_documents(flag)
IngestDocuments(flag) ==
    /\ ingest_pc = "idle"
    /\ pc = "idle"
    /\ reset_pc = "idle"
    /\ ingest_pc' = "init"
    /\ reset_collection' = flag
    /\ ingest_result' = NoResult
    /\ ingest_before' = store
    /\ UNCHANGED ingestFrame

CallIngestDocuments == \E flag \in BOOLEAN : IngestDocuments(flag)

\* rag = RAGSystem(): a new object whose _initialize gets or creates the
\* collection, or raises; then "if reset_collection:"
IngestInit ==
    /\ ingest_pc = "init"
    /\ \E raised \in BOOLEAN :
          IF raised
          THEN /\ ingest_pc' = "done"
               /\ ingest_result' = IngestHandler
               /\ UNCHANGED handle
          ELSE /\ ingest_pc' = IF reset_collection THEN "reset" ELSE "add"
               /\ handle' = "live"
               /\ UNCHANGED ingest_result
    /\ UNCHANGED <<reset_collection, ingest_before>>
    /\ UNCHANGED <<store, pc, retrieveLocals, result, outcome, calls, batch, before,
                   reset_pc, reset_result, at_reset, overlap, reset_before,
                   singletonVars, detectVars, guardVars, monitorVars, endpointVars>>

\* rag.reset_collection() is called
IngestReset ==
    /\ ingest_pc = "reset"
    /\ ResetCollection

\* "rag.reset_collection()" as a statement: the value returned is dropped
IngestResetDone ==
    /\ ingest_pc = "reset"
    /\ reset_pc = "done"
    /\ ingest_pc' = "add"
    /\ UNCHANGED <<reset_collection, ingest_result, ingest_before>>
    /\ UNCHANGED ingestFrame

\* success = rag.add_documents_batch(documents) is called
IngestAdd ==
    /\ ingest_pc = "add"
    /\ AddDocumentsBatch(IngestBatch)

\* "if success: ... else: return False"
IngestSuccess ==
    /\ ingest_pc = "add"
    /\ pc = "add_done"
    /\ IF ret
       THEN /\ ingest_pc' = "stats"
            /\ UNCHANGED ingest_result
       ELSE /\ ingest_pc' = "done"
            /\ ingest_result' = BoolResult(FALSE)
    /\ UNCHANGED <<reset_collection, ingest_before>>
    /\ UNCHANGED ingestFrame

\* stats = rag.get_collection_stats(); stats['collection_name']: the stats are
\* {} when the store raised, and the subscript then raises KeyError
IngestStats ==
    /\ ingest_pc = "stats"
    /\ pc = "idle"
    /\ \E raised \in StoreReadRaises :
          IF raised
          THEN /\ ingest_pc' = "done"
               /\ ingest_result' = IngestHandler
          ELSE /\ ingest_pc' = "retrieve"
               /\ UNCHANGED ingest_result
    /\ UNCHANGED <<reset_collection, ingest_before>>
    /\ UNCHANGED ingestFrame

\* results = rag.retrieve(test_code, top_k=3) is called
IngestRetrieve ==
    /\ ingest_pc = "retrieve"
    /\ Retrieve(TestCode, 3, None, 0, TRUE)

\* "if results: ... else: ..." and "return True"
IngestRetrieved ==
    /\ ingest_pc = "retrieve"
    /\ pc = "done"
    /\ ingest_pc' = "done"
    /\ ingest_result' = IF outcome = "returned" THEN BoolResult(TRUE) ELSE IngestHandler
    /\ UNCHANGED <<reset_collection, ingest_before>>
    /\ UNCHANGED ingestFrame

\* A call made by ingest_documents, or an ingestion before it, returns
IngestStepReturn ==
    /\ \/ ingest_pc = "idle" /\ pc = "add_document_done"
       \/ ingest_pc \in {"stats", "done"} /\ pc = "add_done"
       \/ ingest_pc = "done" /\ pc = "done"
    /\ Return

\* The reset_collection call made by ingest_documents returns
IngestResetReturn ==
    /\ ingest_pc = "add"
    /\ ResetReturn

\* Documents are added before ingest_documents is called
IngestEarlier ==
    /\ ingest_pc = "idle"
    /\ CallAddDocument

\* The caller of ingest_documents takes the result
IngestReturn ==
    /\ ingest_pc = "done"
    /\ pc = "idle"
    /\ ingest_pc' = "idle"
    /\ reset_collection' = FALSE
    /\ ingest_result' = NoResult
    /\ ingest_before' = {}
    /\ UNCHANGED ingestFrame

\* The steps of ingest_documents and of the calls it makes; the dataset has
\* python documents, so the filtered query of the test retrieval finds one and
\* retrieve does not come to its fallback query
NextIngest ==
    \/ IngestEarlier
    \/ CallIngestDocuments
    \/ IngestInit
    \/ IngestReset
    \/ ResetDelete
    \/ ResetCreate
    \/ IngestResetDone
    \/ IngestResetReturn
    \/ IngestAdd
    \/ IngestSuccess
    \/ IngestStats
    \/ IngestRetrieve
    \/ RetrieveCount
    \/ RetrieveEmbed
    \/ RetrieveQuery
    \/ RetrieveRank
    \/ RetrieveExcept
    \/ IngestRetrieved
    \/ IngestStepReturn
    \/ IngestReturn

SpecIngest == Init /\ [][NextIngest]_vars

----------------------------------------------------------------------------
(* EthicalAIGuard.sanitize_code, ethical_ai.py *)

\* self.sensitive_patterns in the order of the dict and of its lists; groups is
\* the number of capturing groups of the regular expression
SENSITIVE_PATTERNS ==
    << [category |-> "api_keys",      name |-> "api_key",      groups |-> 2],
       [category |-> "api_keys",      name |-> "secret_key",   groups |-> 2],
       [category |-> "api_keys",      name |-> "access_token", groups |-> 2],
       [category |-> "credentials",   name |-> "password",     groups |-> 2],
       [category |-> "credentials",   name |-> "username",     groups |-> 2],
       [category |-> "credentials",   name |-> "email",        groups |-> 2],
       [category |-> "personal_info", name |-> "ssn",          groups |-> 0],
       [category |-> "personal_info", name |-> "credit_card",  groups |-> 0],
       [category |-> "personal_info", name |-> "phone",        groups |-> 0] >>

\* self.malicious_patterns
MALICIOUS_PATTERNS == <<"deletion", "execution", "system_access", "sql", "xss">>

\* The lines a code given to sanitize_code is made of
GuardTokens ==
    {"x = 1", "api_key = 'abc'", "password = 'pw'", "ssn = '123-45-6789'", "eval(x)"}

\* Codes of 1..MaxCodeLen lines
GuardCodes == UNION {[1..n -> GuardTokens] : n \in 1..MaxCodeLen}

\* f"{m.group(1)}='***REDACTED***'"
Redacted(group1) ==
    CASE group1 = "api_key"  -> "api_key='***REDACTED***'"
      [] group1 = "password" -> "password='***REDACTED***'"

\* The patterns that match within a line, with the text of group 1 when the
\* pattern has one
LineMatches(line) ==
    CASE line = "api_key = 'abc'"           -> {[name |-> "api_key", group1 |-> "api_key"]}
      [] line = "password = 'pw'"           -> {[name |-> "password", group1 |-> "password"]}
      [] line = "password='***REDACTED***'" -> {[name |-> "password", group1 |-> "password"]}
      [] line = "ssn = '123-45-6789'"       -> {[name |-> "ssn", group1 |-> ""]}
      [] line = "eval(x)"                   -> {[name |-> "execution", group1 |-> "eval"]}
      [] OTHER                              -> {}

\* re.findall(pattern, text) is not empty; re.search(pattern, text)
Found(name, text) == \E i \in 1..Len(text) : \E m \in LineMatches(text[i]) : m.name = name

\* re.sub(pattern, lambda m: f"{m.group(1)}='***REDACTED***'", text)
Sub(name, text) ==
    [i \in 1..Len(text) |->
        IF \E m \in LineMatches(text[i]) : m.name = name
        THEN Redacted((CHOOSE m \in LineMatches(text[i]) : m.name = name).group1)
        ELSE text[i]]

\* The loop over self.sensitive_patterns from pattern i on: m.group(1) raises
\* IndexError for a pattern without groups
RECURSIVE MaskSensitive(_, _, _)
MaskSensitive(i, sanitized, warnings) ==
    IF i > Len(SENSITIVE_PATTERNS)
    THEN [type |-> "tuple", sanitized |-> sanitized, warnings |-> warnings]
    ELSE LET pattern == SENSITIVE_PATTERNS[i]
         IN  IF ~Found(pattern.name, sanitized)
             THEN MaskSensitive(i + 1, sanitized, warnings)
             ELSE IF pattern.groups < 1
             THEN [type |-> "raised", error |-> "IndexError"]
             ELSE MaskSensitive(i + 1, Sub(pattern.name, sanitized),
                                Append(warnings, <<"Detected", pattern.category>>))

\* malicious_found
MaliciousFound(code) ==
    SelectSeq(MALICIOUS_PATTERNS, LAMBDA name : Found(name, code))

\* EthicalAIGuard.sanitize_code
sanitize_code(code) ==
    LET masked == MaskSensitive(1, code, <<>>)
    IN  IF masked.type = "raised" THEN masked
        ELSE IF MaliciousFound(code) # <<>>
        THEN [type |-> "tuple", sanitized |-> masked.sanitized,
              warnings |-> Append(masked.warnings, <<"Potentially dangerous", "">>)]
        ELSE masked

guardFrame == <<store, pc, retrieveLocals, result, outcome, calls, batch, before,
                resetVars, singletonVars, detectVars, ingestVars, monitorVars,
                endpointVars>>

InitSanitize ==
    /\ RagIdle /\ ResetIdle /\ SingletonReady /\ DetectIdle /\ IngestIdle
    /\ MonitorIdle /\ EndpointIdle
    /\ guard_code \in GuardCodes
    /\ guard_result = NoResult

\* ethical_guard.sanitize_code(guard_code)
SanitizeCode ==
    /\ guard_result = NoResult
    /\ guard_result' = sanitize_code(guard_code)
    /\ UNCHANGED <<guard_code, guardFrame>>

NextSanitize == SanitizeCode

SpecSanitize == InitSanitize /\ [][NextSanitize]_vars

----------------------------------------------------------------------------
(* get_rag_system and the construction of the RAGSystem *)

\* An entry of g_log: what happened, in which call of get_rag_system, on the
\* RAGSystem of which serial number, and whether the statement raised
Event(event, call, serial, raised) ==
    [event |-> event, call |-> call, serial |-> serial, raised |-> raised]

\* Number of get_rag_system calls made so far
CallsMade == Cardinality({i \in 1..Len(g_log) : g_log[i].event = "call"})

\* RAGSystem.__init__ before _initialize: the three handles are None
Uninitialized(serial) ==
    [serial |-> serial, client |-> FALSE, collection |-> FALSE, embedding_model |-> FALSE]

\* get_rag_system that builds a RAGSystem at every call
MutAlwaysNone(global) == TRUE

\* _rag_system is None
IsNone(global) == global = <<>>

InitSingleton ==
    /\ RagIdle /\ ResetIdle /\ DetectIdle /\ LaterIdle
    /\ _rag_system = <<>>
    /\ self = <<>>
    /\ g_pc = "idle"
    /\ g_ret = <<>>
    /\ g_log = <<>>

singletonFrame == <<store, pc, retrieveLocals, result, outcome, calls, batch, before,
                    resetVars, detectVars, laterVars>>

\* A caller invokes get_rag_system(): "if _rag_system is None", and RAGSystem()
\* up to the call of _initialize
GetRagSystem ==
    /\ g_pc = "idle"
    /\ CallsMade < MaxCalls
    /\ g_log' = Append(g_log, Event("call", CallsMade + 1, 0, FALSE))
    /\ g_ret' = <<>>
    /\ IF IsNone(_rag_system)
       THEN /\ self' = <<Uninitialized(CallsMade + 1)>>
            /\ g_pc' = "client"
       ELSE /\ g_pc' = "return"
            /\ UNCHANGED self
    /\ UNCHANGED <<_rag_system, singletonFrame>>

\* One statement of the try block of _initialize: it raises, or sets a handle
InitializeStep(at, next, object) ==
    /\ g_pc = at
    /\ \E raised \in BOOLEAN :
          /\ g_log' = Append(g_log, Event(at, CallsMade, self[1].serial, raised))
          /\ IF raised
             THEN /\ g_pc' = "raise"
                  /\ UNCHANGED self
             ELSE /\ g_pc' = next
                  /\ self' = <<object>>
    /\ UNCHANGED <<_rag_system, g_ret, singletonFrame>>

\* self.client = chromadb.PersistentClient(...)
InitializeClient ==
    InitializeStep("client", "collection", [self[1] EXCEPT !.client = TRUE])

\* self.collection = self.client.get_or_create_collection(...)
InitializeCollection ==
    InitializeStep("collection", "model", [self[1] EXCEPT !.collection = TRUE])

\* self.embedding_model = SentenceTransformer(EMBEDDING_MODEL_NAME)
InitializeModel ==
    InitializeStep("model", "count", [self[1] EXCEPT !.embedding_model = TRUE])

\* count = self.collection.count()
InitializeCount == InitializeStep("count", "assign", self[1])

\* "_rag_system = RAGSystem()": the constructor has returned
AssignGlobal ==
    /\ g_pc = "assign"
    /\ _rag_system' = self
    /\ self' = <<>>
    /\ g_pc' = "return"
    /\ UNCHANGED <<g_ret, g_log, singletonFrame>>

\* "return _rag_system"
ReturnGlobal ==
    /\ g_pc = "return"
    /\ g_ret' = _rag_system
    /\ g_log' = Append(g_log, Event("return", CallsMade, _rag_system[1].serial, FALSE))
    /\ g_pc' = "idle"
    /\ UNCHANGED <<_rag_system, self, singletonFrame>>

\* "except Exception as e: ... raise" of _initialize: the exception leaves the
\* constructor and get_rag_system, the assignment is not made
RaiseInitialize ==
    /\ g_pc = "raise"
    /\ self' = <<>>
    /\ g_log' = Append(g_log, Event("raise", CallsMade, self[1].serial, FALSE))
    /\ g_pc' = "idle"
    /\ UNCHANGED <<_rag_system, g_ret, singletonFrame>>

NextSingleton ==
    \/ GetRagSystem
    \/ InitializeClient
    \/ InitializeCollection
    \/ InitializeModel
    \/ InitializeCount
    \/ AssignGlobal
    \/ ReturnGlobal
    \/ RaiseInitialize

SpecSingleton == InitSingleton /\ [][NextSingleton]_vars

----------------------------------------------------------------------------
(* The classifier called on its own *)

InitDetect ==
    /\ RagIdle /\ ResetIdle /\ SingletonReady /\ LaterIdle
    /\ detect_code \in DetectCodes
    /\ detect_ret = NoValue

\* detect_language(detect_code)
DetectLanguage ==
    /\ detect_ret = NoValue
    /\ detect_ret' = detect_language(detect_code)
    /\ UNCHANGED <<store, pc, retrieveLocals, result, outcome, calls, batch, before,
                   resetVars, singletonVars, detect_code, laterVars>>

NextDetect == DetectLanguage

SpecDetect == InitDetect /\ [][NextDetect]_vars

----------------------------------------------------------------------------
(* Properties of retrieve *)

\* The store queries of the running operation, in order
RECURSIVE SelectOp(_, _)
SelectOp(cs, op) ==
    IF cs = <<>> THEN <<>>
    ELSE (IF Head(cs).op = op THEN <<Head(cs)>> ELSE <<>>) \o SelectOp(Tail(cs), op)

Queries == SelectOp(calls, "query")

\* retrieve has returned after scoring the candidates in results
Ranked ==
    /\ pc = "done"
    /\ calls # <<>>
    /\ calls[Len(calls)].op = "query"
    /\ ~calls[Len(calls)].raised

\* The language label stored with a candidate, None when it has none
StoredLanguage(metadata) ==
    IF "language" \in DOMAIN metadata THEN metadata["language"] ELSE None

\* Number of lines of a text: one more than its newlines
Lines(text) == 1 + Cardinality({i \in 1..Len(text) : text[i] = NL})

\* C1: on a non-empty store, retrieve returns at most top_k results, in
\* non-increasing order of relevance_score
Thm_C1 ==
    (pc = "done" /\ Cardinality(store) > 0) =>
        /\ outcome = "returned"
        /\ Len(ret) <= top_k
        /\ \A i \in 1..Len(ret), j \in 1..Len(ret) :
              i < j => ret[i].relevance_score >= ret[j].relevance_score

\* Two results, the better one reported farther away by the store
Wit_C1 ==
    /\ Ranked
    /\ Len(ret) = 2
    /\ ret[1].relevance_score > ret[2].relevance_score
    /\ ret[1].distance > ret[2].distance

\* C2: every returned result has 0 <= relevance_score <= 1 and
\* relevance_score >= min_relevance, whatever distances the store reports
Thm_C2 ==
    pc = "done" =>
        \A i \in 1..Len(ret) :
            /\ 0 <= ret[i].relevance_score
            /\ ret[i].relevance_score <= Scale
            /\ ret[i].relevance_score >= min_relevance
            /\ calls[1].min_relevance_omitted => 100 * ret[i].relevance_score >= 65 * Scale

\* A result at distance above 1 next to a result whose sum of terms exceeds 1
Wit_C2 ==
    /\ Ranked
    /\ \E i \in 1..Len(ret) : ret[i].distance > Scale
    /\ \E i \in 1..Len(ret) :
          /\ ret[i].relevance_score = Scale
          /\ ret[i].distance = 0
    /\ min_relevance = 0

\* C3: against a store that holds no document retrieve returns an empty sequence
Thm_C3 ==
    (pc = "done" /\ Cardinality(store) = 0) =>
        /\ outcome = "returned"
        /\ ret = <<>>

\* count() answered 0 and retrieve returned
Wit_C3 ==
    /\ pc = "done"
    /\ Cardinality(store) = 0
    /\ Len(calls) = 2
    /\ calls[2] = [op |-> "count", raised |-> FALSE]
    /\ ret = <<>>

\* The filtered query ran and found the store without a document of the
\* resolved language; no store query raised
FallbackCase ==
    /\ pc = "done"
    /\ Queries # <<>>
    /\ \A i \in 1..Len(Queries) : ~Queries[i].raised
    /\ language # "unknown"
    /\ \A r \in store : StoredLanguage(r.metadata) # language

\* C4: when no stored document has the resolved language (not 'unknown'),
\* retrieve queries again without the filter and returns up to top_k of those
\* unfiltered nearest candidates, at least one if one of them scores
\* min_relevance or more
Thm_C4 ==
    FallbackCase =>
        /\ Len(Queries) = 2
        /\ Queries[1].where = language
        /\ Queries[2].where = NoFilter
        /\ Queries[2].n_results = Queries[1].n_results
        /\ IsStoreQuery(results, store, Queries[2].n_results, NoFilter)
        /\ Len(ret) <= top_k
        /\ \A i \in 1..Len(ret) :
              \E j \in 1..Len(results.documents) :
                  /\ ret[i].code = results.documents[j]
                  /\ ret[i].metadata = results.metadatas[j]
                  /\ ret[i].distance = results.distances[j]
        /\ (\E j \in 1..Len(results.documents) :
               _calculate_relevance(query_code, results.documents[j], results.metadatas[j],
                                    results.distances[j], language) >= min_relevance)
              => ret # <<>>

\* A python query against a store of java only, answered from the fallback
Wit_C4 ==
    /\ FallbackCase
    /\ language = "python"
    /\ Len(ret) = top_k
    /\ \E r \in store : StoredLanguage(r.metadata) = "java"
    /\ ret[1].language = "java"

\* C5 as stated: of two candidates at the same distance, the one whose stored
\* language is the resolved language never appears after the other
Orig_C5 ==
    Ranked =>
        \A i \in 1..Len(ranked_results), j \in 1..Len(ranked_results) :
            (/\ ranked_results[i].distance = ranked_results[j].distance
             /\ StoredLanguage(ranked_results[i].metadata) = language
             /\ StoredLanguage(ranked_results[j].metadata) # language)
                => i < j

\* C5 amended: of two candidates at the same distance, the one whose stored
\* language is the resolved language has a relevance_score at least as high,
\* and appears before the other unless both scores are clamped to 1.0
Thm_C5 ==
    Ranked =>
        \A i \in 1..Len(ranked_results), j \in 1..Len(ranked_results) :
            (/\ ranked_results[i].distance = ranked_results[j].distance
             /\ StoredLanguage(ranked_results[i].metadata) = language
             /\ StoredLanguage(ranked_results[j].metadata) # language)
                => /\ ranked_results[i].relevance_score >= ranked_results[j].relevance_score
                   /\ i < j \/ (/\ ranked_results[i].relevance_score = Scale
                                /\ ranked_results[j].relevance_score = Scale)

\* Same distance, the store returned the other language first with the better
\* length bonus, and the ranking put the matching language first
Wit_C5 ==
    /\ Ranked
    /\ Len(ranked_results) >= 2
    /\ ranked_results[1].distance = ranked_results[2].distance
    /\ StoredLanguage(ranked_results[1].metadata) = language
    /\ StoredLanguage(ranked_results[2].metadata) # language
    /\ results.documents[1] = ranked_results[2].code
    /\ Lines(ranked_results[2].code) = Lines(query_code)
    /\ Lines(ranked_results[1].code) # Lines(query_code)

\* Positions of the ranked candidates that reach min_relevance
Kept == {i \in 1..Len(ranked_results) : ranked_results[i].relevance_score >= min_relevance}

\* The n-th kept position
NthKept(n) == CHOOSE i \in Kept : Cardinality({j \in Kept : j <= i}) = n

\* C6: the result is the first top_k ranked candidates among those with
\* relevance_score >= min_relevance, a score equal to min_relevance included;
\* it is empty when the best candidate is below min_relevance
Thm_C6 ==
    Ranked =>
        /\ Len(ret) = Min(top_k, Cardinality(Kept))
        /\ \A n \in 1..Len(ret) : ret[n] = ranked_results[NthKept(n)]
        /\ (\A i \in 1..Len(ranked_results) :
               ranked_results[i].relevance_score < min_relevance) => ret = <<>>

\* A candidate scoring exactly min_relevance is returned while another is dropped
Wit_C6 ==
    /\ Ranked
    /\ min_relevance > 0
    /\ \E i \in 1..Len(ret) : ret[i].relevance_score = min_relevance
    /\ Cardinality(Kept) < Len(ranked_results)

\* C7: relevance_score = min(1, max(0, 1 - distance) + 0.2 [language match]
\* + 0.1 * min(ql, dl) / max(ql, dl)), the last term 0 when both counts are 0.
\* Stated in units of 1 / (10 * max(ql, dl) * Scale).
Thm_C7 ==
    Ranked =>
        \A i \in 1..Len(ranked_results) :
            LET r     == ranked_results[i]
                ql    == Lines(query_code)
                dl    == Lines(r.code)
                mx    == IF ql >= dl THEN ql ELSE dl
                mn    == IF ql >= dl THEN dl ELSE ql
                sim   == IF r.distance >= Scale THEN 0 ELSE Scale - r.distance
                bonus == IF StoredLanguage(r.metadata) = language THEN 2 * Scale ELSE 0
                total == 10 * mx * sim + mx * bonus + (IF mx = 0 THEN 0 ELSE mn * Scale)
            IN  /\ mx > 0
                /\ 10 * mx * r.relevance_score
                      = (IF total >= 10 * mx * Scale THEN 10 * mx * Scale ELSE total)

\* One candidate beyond distance 1 with the language bonus and unequal line
\* counts, one candidate clamped to 1.0
Wit_C7 ==
    /\ Ranked
    /\ \E i \in 1..Len(ranked_results) :
          /\ ranked_results[i].distance > Scale
          /\ StoredLanguage(ranked_results[i].metadata) = language
          /\ Lines(ranked_results[i].code) # Lines(query_code)
          /\ ranked_results[i].relevance_score > Scale \div 5
    /\ \E i \in 1..Len(ranked_results) :
          /\ ranked_results[i].relevance_score = Scale
          /\ ranked_results[i].distance = 0

----------------------------------------------------------------------------
(* Properties of failure handling *)

\* The embedder calls of the running operation that yielded an empty vector
FailedEmbeds == {i \in 1..Len(calls) : calls[i].op = "embed" /\ calls[i].vector = <<>>}

\* The count, query and add calls of the running operation that raised
RaisedCalls ==
    {i \in 1..Len(calls) : calls[i].op \in {"count", "query", "add"} /\ calls[i].raised}

\* C8 as stated: retrieve and add_documents_batch never let an exception out;
\* when count(), a query, the embedder or the store write raises, retrieve
\* returns an empty sequence and add_documents_batch returns False
Orig_C8 ==
    /\ pc \in {"done", "add_done"} => outcome = "returned"
    /\ (pc = "done" /\ (RaisedCalls # {} \/ FailedEmbeds # {})) => ret = <<>>
    /\ (pc = "add_done" /\ (RaisedCalls # {} \/ FailedEmbeds # {})) => ret = FALSE

\* C9: when the embedder yields an empty vector for the query on a non-empty
\* store, retrieve returns an empty sequence and sends no query to the store
Thm_C9 ==
    (pc = "done" /\ FailedEmbeds # {}) =>
        /\ outcome = "returned"
        /\ ret = <<>>
        /\ Queries = <<>>
        /\ \A i \in 1..Len(calls) : calls[i].op \in {"retrieve", "count", "embed"}

\* The embedder failed on a store that holds documents and retrieve returned
Wit_C9 ==
    /\ pc = "done"
    /\ Cardinality(store) > 0
    /\ Len(calls) = 3
    /\ calls[3].op = "embed"
    /\ calls[3].vector = <<>>
    /\ ret = <<>>

\* C10 as stated: when the embedding of any document of the batch fails or the
\* store write raises, add_documents_batch returns False and the store holds
\* exactly what it held before the call
Orig_C10 ==
    (pc = "add_done" /\ (RaisedCalls # {} \/ FailedEmbeds # {})) =>
        /\ ret = FALSE
        /\ store = before

----------------------------------------------------------------------------
(* Properties of ingestion *)

\* The store write of the finished ingestion call, as a sequence of 0 or 1 call
Adds == SelectOp(calls, "add")

\* The record a document is stored as, whatever its id
SameContent(r, doc) ==
    /\ r.document = doc.code
    /\ r.metadata = Put(doc.metadata, "explanation", doc.explanation)

\* Every document of the batch was ingested before with the same content
Reingestion == \A i \in 1..Len(batch) : \E r \in before : SameContent(r, batch[i])

\* C11: ingesting again documents of identical content creates no duplicate:
\* the stored ids and count() are those before the call
Thm_C11 ==
    (pc = "add_done" /\ Reingestion) =>
        /\ {r.id : r \in store} = {r.id : r \in before}
        /\ Cardinality(store) = Cardinality(before)

\* A batch of two stored documents is ingested again and reported written
Wit_C11 ==
    /\ pc = "add_done"
    /\ Reingestion
    /\ Len(batch) = 2
    /\ batch[1] # batch[2]
    /\ ret = TRUE
    /\ store = before

\* The stored record came from a document offered without an id
StoredWithoutId(r) == \E d \in DocPool : "id" \notin DOMAIN d /\ SameContent(r, d)

Orig_C19 ==
    pc = "add_done" =>
        /\ Len(Adds) <= 1
        /\ Adds # <<>> =>
              LET add == Adds[1] IN
              /\ Len(add.ids) = Len(batch)
              /\ Len(add.documents) = Len(batch)
              /\ Len(add.embeddings) = Len(batch)
              /\ Len(add.metadatas) = Len(batch)
              /\ \A i \in 1..Len(batch) :
                    /\ add.ids[i] = Get(batch[i], "id", Md5Prefix(batch[i].code))
                    /\ add.documents[i] = batch[i].code
                    /\ calls[i].op = "embed"
                    /\ calls[i].text = batch[i].code
                    /\ add.embeddings[i] = calls[i].vector
                    /\ \A k \in DOMAIN batch[i].metadata :
                          add.metadatas[i][k] = batch[i].metadata[k]
                    /\ add.metadatas[i]["explanation"] = batch[i].explanation

Thm_C13 ==
    (pc \in {"query", "fallback", "rank", "except", "done"} /\ Queries # <<>>) =>
        LET supplied == calls[1].language
            L        == IF supplied = None THEN detect_language(query_code) ELSE supplied
        IN  /\ \A i \in 1..Len(Queries) :
                  Queries[i].n_results = (IF 2 * top_k <= 20 THEN 2 * top_k ELSE 20)
            /\ L = "unknown" => Queries[1].where = NoFilter
            /\ L # "unknown" => Queries[1].where = L
            /\ language = L
            /\ Len(Queries) <= 2

\* top_k = 11 asks for 20 results, filtered by the classifier's answer
Wit_C13 ==
    /\ pc = "done"
    /\ Queries # <<>>
    /\ top_k = LargeTopK
    /\ Queries[1].n_results = 20
    /\ calls[1].language = None
    /\ Queries[1].where = "python"

----------------------------------------------------------------------------
(* Properties of retrieve: filter, order of the calls, ranking *)

\* The store holds one document labelled python and one labelled java
PythonJavaStore ==
    /\ Cardinality(store) = 2
    /\ {StoredLanguage(r.metadata) : r \in store} = {"python", "java"}

\* C15: on a store of one python and one java document, a query resolved to
\* python gets the python document first whenever its score reaches
\* min_relevance, whatever distances the store reports; the java document is
\* not a candidate
Thm_C15 ==
    (Ranked /\ PythonJavaStore /\ language = "python") =>
        /\ \A i \in 1..Len(ranked_results) : ranked_results[i].language = "python"
        /\ \A i \in 1..Len(ranked_results) :
              ranked_results[i].relevance_score >= min_relevance =>
                  /\ ret # <<>>
                  /\ ret[1] = ranked_results[i]
                  /\ StoredLanguage(ret[1].metadata) = "python"

\* top_k = 2, the python document reported at distance 0.4 and returned first
Wit_C15 ==
    /\ Ranked
    /\ PythonJavaStore
    /\ language = "python"
    /\ top_k = 2
    /\ results.distances = <<(4 * Scale) \div 10>>
    /\ Len(ret) = 1
    /\ StoredLanguage(ret[1].metadata) = "python"

\* Place of a collaborator call in the order of retrieve
CallOrder(op) ==
    CASE op = "retrieve" -> 0
      [] op = "count"    -> 1
      [] op = "embed"    -> 2
      [] op = "classify" -> 3
      [] op = "query"    -> 4

\* C17: the calls of one retrieve come in the order count, embed, classify
\* (when no language was supplied), query, fallback query, and the candidates
\* are scored, sorted and filtered after the last query; the embedder is not
\* called when count() is 0, nothing is called after a count() that raised,
\* and neither the classifier nor the store after an embedding failure
Thm_C17 ==
    (calls # <<>> /\ calls[1].op = "retrieve") =>
        /\ \A i \in 2..Len(calls) : calls[i].op \in {"count", "embed", "classify", "query"}
        /\ Len(calls) >= 2 => calls[2].op = "count"
        /\ \A i \in 1..Len(calls), j \in 1..Len(calls) :
              i < j => /\ CallOrder(calls[i].op) <= CallOrder(calls[j].op)
                       /\ calls[i].op = calls[j].op => calls[i].op = "query"
        /\ Len(Queries) <= 2
        /\ Len(Queries) = 2 => /\ calls[Len(calls)].op = "query"
                                /\ calls[Len(calls)].where = NoFilter
                                /\ calls[Len(calls) - 1].op = "query"
                                /\ calls[Len(calls) - 1].where # NoFilter
                                /\ ~calls[Len(calls) - 1].raised
        /\ Cardinality(store) = 0 => \A i \in 1..Len(calls) : calls[i].op # "embed"
        /\ \A i \in 1..Len(calls) :
              (calls[i].op = "count" /\ calls[i].raised) => i = Len(calls)
        /\ \A i \in FailedEmbeds : i = Len(calls)
        /\ \A i \in 1..Len(calls) :
              calls[i].op = "classify" =>
                  /\ calls[1].language = None
                  /\ i < Len(calls)
                  /\ calls[i + 1].op = "query"
        /\ (Queries # <<>> /\ calls[1].language = None) =>
              \E i \in 1..Len(calls) : calls[i].op = "classify"
        /\ (pc = "done" /\ ret # <<>>) => Ranked
        /\ pc \in {"count", "embed", "query", "fallback", "rank", "except"}
              => result = NoResult

\* A retrieve without a language, whose filtered query found nothing, made
\* all five calls and returned a result of the fallback query
Wit_C17 ==
    /\ pc = "done"
    /\ Len(calls) = 6
    /\ calls[4].op = "classify"
    /\ calls[5].where = "python"
    /\ calls[6].where = NoFilter
    /\ ret # <<>>

\* C18: the ranking is a function of the candidates the store returned: a
\* candidate is placed after the candidates with a higher score and after
\* those with an equal score that the store returned before it
Thm_C18 ==
    Ranked =>
        LET n        == Len(results.documents)
            score    == [i \in 1..n |->
                            _calculate_relevance(query_code, results.documents[i],
                                                 results.metadatas[i], results.distances[i],
                                                 language)]
            place(i) == 1 + Cardinality({j \in 1..n :
                                            \/ score[j] > score[i]
                                            \/ score[j] = score[i] /\ j < i})
        IN  /\ Len(ranked_results) = n
            /\ \A i \in 1..n :
                  LET placed == ranked_results[place(i)]
                  IN  /\ placed.code = results.documents[i]
                      /\ placed.metadata = results.metadatas[i]
                      /\ placed.relevance_score = score[i]

\* Two candidates of equal score, the farther one listed first by the store,
\* are returned in the store's order
Wit_C18 ==
    /\ Ranked
    /\ Len(ret) = 2
    /\ ret[1].relevance_score = ret[2].relevance_score
    /\ ret[1].code = results.documents[1]
    /\ ret[2].code = results.documents[2]
    /\ ret[1].code # ret[2].code

----------------------------------------------------------------------------
(* Properties of the classifier *)

\* The patterns of a language that match somewhere in the code
Matched(lang, code) ==
    {p \in UNION {TokenPatterns(code[i]) : i \in 1..Len(code)} : p[1] = lang}

MatchCount(k, code) == Cardinality(Matched(LANGUAGE_PATTERNS[k].language, code))

\* C14: detect_language returns the language with the highest non-zero count
\* of matching patterns, the first in LANGUAGE_PATTERNS among those that share
\* it, and 'unknown' exactly when no pattern matches
Thm_C14 ==
    detect_ret # NoValue =>
        LET n == Len(LANGUAGE_PATTERNS) IN
        /\ detect_ret = "unknown" <=> \A k \in 1..n : MatchCount(k, detect_code) = 0
        /\ detect_ret # "unknown" =>
              \E k \in 1..n :
                 /\ detect_ret = LANGUAGE_PATTERNS[k].language
                 /\ MatchCount(k, detect_code) > 0
                 /\ \A j \in 1..n : MatchCount(j, detect_code) <= MatchCount(k, detect_code)
                 /\ \A j \in 1..(k - 1) :
                       MatchCount(j, detect_code) < MatchCount(k, detect_code)

\* python and java both match one pattern, nothing matches more: python, the
\* first defined, is returned
Wit_C14 ==
    /\ detect_ret = "python"
    /\ MatchCount(1, detect_code) = 1
    /\ MatchCount(4, detect_code) = 1

----------------------------------------------------------------------------
(* Properties of retrieve beside reset_collection *)

\* The documents stored when the resets met by the running retrieve began
StoredBeforeReset == {[code |-> r.document, metadata |-> r.metadata] : r \in at_reset}

\* C20: a retrieve call that ran beside a reset_collection call raises
\* nothing and returns only documents that were stored when the reset began
\* (or nothing)
Thm_C20 ==
    (pc = "done" /\ overlap) =>
        /\ outcome = "returned"
        /\ \A i \in 1..Len(ret) :
              [code |-> ret[i].code, metadata |-> ret[i].metadata] \in StoredBeforeReset

\* The collection was deleted and created again after the query of a running
\* retrieve, which returns a document that is stored no more
Wit_C20 ==
    /\ pc = "done"
    /\ overlap
    /\ reset_pc = "done"
    /\ reset_ret = TRUE
    /\ store = {}
    /\ ret # <<>>

\* C21 as stated: reset_collection raises nothing and returns a boolean; after
\* True the collection exists and is empty, and a retrieve on it returns
\* nothing; after False the stored documents are those held at the call and
\* self.collection is usable
Orig_C21 ==
    /\ reset_pc = "done" => reset_result.type = "bool"
    /\ (reset_pc = "done" /\ reset_ret) => (handle = "live" /\ store = {})
    /\ (pc = "done" /\ ~overlap /\ handle = "live" /\ store = {}) => ret = <<>>
    /\ (reset_pc = "done" /\ ~reset_ret) => (store = reset_before /\ handle = "live")

----------------------------------------------------------------------------
(* Properties of ingest_documents *)

\* A stored record without its vector
Content(r) == [id |-> r.id, document |-> r.document, metadata |-> r.metadata]

\* The records of the dataset's documents
DatasetContents ==
    {[id |-> IngestBatch[i].id, document |-> IngestBatch[i].code,
      metadata |-> Put(IngestBatch[i].metadata, "explanation", IngestBatch[i].explanation)] :
        i \in 1..Len(IngestBatch)}

\* C22 as stated: when ingest_documents(reset_collection=True) returns True
\* the store holds the dataset's documents and nothing else
Orig_C22 ==
    (ingest_pc = "done" /\ reset_collection /\ ingest_result = BoolResult(TRUE)) =>
        {Content(r) : r \in store} = DatasetContents

----------------------------------------------------------------------------
(* Properties of sanitize_code *)

\* The code matches a sensitive-information pattern or a malicious-code pattern
MatchesAny(code) ==
    \/ \E i \in 1..Len(SENSITIVE_PATTERNS) : Found(SENSITIVE_PATTERNS[i].name, code)
    \/ \E i \in 1..Len(MALICIOUS_PATTERNS) : Found(MALICIOUS_PATTERNS[i], code)

\* C23 as stated: sanitize_code raises nothing; its warning list is not empty
\* exactly when the code matches a sensitive-information or malicious-code
\* pattern, and a code that matches none is returned unchanged
Orig_C23 ==
    guard_result # NoResult =>
        /\ guard_result.type = "tuple"
        /\ (guard_result.warnings # <<>>) <=> MatchesAny(guard_code)
        /\ ~MatchesAny(guard_code) =>
              (guard_result.sanitized = guard_code /\ guard_result.warnings = <<>>)

----------------------------------------------------------------------------
(* Properties of get_rag_system *)

\* The entries of g_log that belong to a call
EventsOf(call) == SelectSeq(g_log, LAMBDA e : e.call = call)

\* The calls that returned an instance
Succeeded == {g_log[i].call : i \in {j \in 1..Len(g_log) : g_log[j].event = "return"}}

\* The statements of _initialize, in order
InitializeOrder == <<"client", "collection", "model", "count">>

\* The entries are a call that ran _initialize from its first statement, as
\* far as it has got: every statement after one that did not raise, "raise"
\* after one that did, "return" of its own instance after the last
FullInitialization(events, call) ==
    /\ events[1].event = "call"
    /\ Len(events) <= 6
    /\ \A k \in 2..Len(events) :
          /\ k <= 5 /\ ~events[k - 1].raised => events[k].event = InitializeOrder[k - 1]
          /\ events[k - 1].raised => events[k].event = "raise" /\ k = Len(events)
          /\ k = 6 /\ ~events[5].raised => events[6].event = "return"
          /\ events[k].event = "return" => k = 6
          /\ events[k].serial = call
          /\ events[k].event = "raise" => events[k - 1].raised

\* C16: once a call of get_rag_system has returned an instance, every later
\* call returns that instance and runs no statement of _initialize; a call
\* whose initialization raises leaves _rag_system None, and every call made
\* while no call has succeeded runs _initialize from its first statement
Thm_C16 ==
    /\ \A i \in 1..Len(g_log), j \in 1..Len(g_log) :
          (i < j /\ g_log[i].event = "return") =>
              /\ g_log[j].event \in {"call", "return"}
              /\ g_log[j].event = "return" => g_log[j].serial = g_log[i].serial
    /\ \A n \in 1..CallsMade :
          IF \E m \in Succeeded : m < n
          THEN /\ Len(EventsOf(n)) <= 2
               /\ EventsOf(n)[1].event = "call"
               /\ Len(EventsOf(n)) = 2 => EventsOf(n)[2].event = "return"
          ELSE FullInitialization(EventsOf(n), n)
    /\ ~IsNone(_rag_system) =>
          /\ _rag_system[1] = Initialized(_rag_system[1].serial)
          /\ _rag_system[1].serial \in Succeeded \/ g_pc = "return"
    /\ (Succeeded = {} /\ g_pc \in {"idle", "client", "collection", "model", "count",
                                     "raise", "assign"}) => IsNone(_rag_system)
    /\ g_ret # <<>> => g_ret = _rag_system
    /\ g_pc = "idle" => self = <<>>

\* A call fails at its third statement, the next call initializes from the
\* start and succeeds, the call after it returns the same instance
Wit_C16 ==
    /\ g_pc = "idle"
    /\ Len(g_log) = 13
    /\ g_log[4].event = "model" /\ g_log[4].raised
    /\ g_log[5].event = "raise"
    /\ g_log[7].event = "client"
    /\ g_log[11].event = "return"
    /\ g_log[13].event = "return"
    /\ g_log[13].serial = g_log[11].serial
    /\ g_ret = _rag_system

----------------------------------------------------------------------------
(* performance_monitor.py: the PerformanceMonitor *)

\* 'rag', 'basic', and a mode that is neither
Modes == {"rag", "basic", "stream"}

\* response times, in seconds
ResponseTimes == {1, 2}

Limits == 0..MaxLimit

\* The dictionary record_request appends to the history.  The timestamp is
\* the position of the request among those recorded since the construction
\* or the last reset_metrics: datetime.now() grows with every call.
RequestEntry(timestamp, mode, response_time, success, code_length, retrieved_count, error) ==
    [timestamp |-> timestamp, mode |-> mode, response_time |-> response_time,
     success |-> success, code_length |-> code_length,
     retrieved_count |-> retrieved_count, error |-> error]

MutDequeKeepsAll(d, maxlen, x) == Append(d, x)

\* deque(maxlen=maxlen).append(x): a full deque drops its oldest entry
DequeAppend(d, maxlen, x) ==
    IF maxlen = 0 THEN <<>>
    ELSE IF Len(d) >= maxlen THEN Append(Tail(d), x)
    ELSE Append(d, x)

\* s[start:] of a Python list
SliceFrom(s, start) ==
    LET n == Len(s)
        from == IF start < 0 THEN Max(n + start, 0) ELSE Min(start, n)
    IN  SubSeq(s, from + 1, n)

\* history[-limit:] if len(history) > limit else history
get_recent_history(history, lim) ==
    IF Len(history) > lim THEN SliceFrom(history, 0 - lim) ELSE history

monitorFrame == <<store, pc, retrieveLocals, result, outcome, calls, batch, before,
                  resetVars, singletonVars, detectVars, ingestVars, guardVars,
                  endpointVars>>

\* performance_monitor.record_request(mode, response_time, success, code_length,
\*                                    retrieved_count, error)
RecordRequest(mode, response_time, success, code_length, retrieved_count, error) ==
    /\ Len(recorded) < MaxRequests
    /\ total_requests' = total_requests + 1
    /\ IF success
       THEN /\ successful_requests' = successful_requests + 1
            /\ total_response_time' = total_response_time + response_time
            /\ UNCHANGED failed_requests
       ELSE /\ failed_requests' = failed_requests + 1
            /\ UNCHANGED <<successful_requests, total_response_time>>
    /\ IF mode = "rag"
       THEN /\ rag_requests' = rag_requests + 1
            /\ UNCHANGED basic_requests
       ELSE /\ basic_requests' = basic_requests + 1
            /\ UNCHANGED rag_requests
    /\ LET entry == RequestEntry(Len(recorded) + 1, mode, response_time, success,
                                 code_length, retrieved_count, error)
       IN  /\ request_history' = DequeAppend(request_history, max_history, entry)
           /\ recorded' = Append(recorded, entry)
    /\ mon_last' = "record_request"
    /\ limit' = 0
    /\ history_ret' = NoResult
    /\ UNCHANGED max_history

\* A caller records a request
CallRecordRequest ==
    /\ \E mode \in Modes, response_time \in ResponseTimes, success \in BOOLEAN :
          RecordRequest(mode, response_time, success, 1, 0,
                        IF success THEN None ELSE "error")
    /\ UNCHANGED monitorFrame

\* performance_monitor.get_recent_history(lim)
GetRecentHistory(lim) ==
    /\ limit' = lim
    /\ history_ret' = ListResult(get_recent_history(request_history, lim))
    /\ mon_last' = "get_recent_history"
    /\ UNCHANGED <<max_history, request_history, total_requests, successful_requests,
                   failed_requests, total_response_time, rag_requests, basic_requests,
                   recorded>>
    /\ UNCHANGED monitorFrame

CallGetRecentHistory == \E lim \in Limits : GetRecentHistory(lim)

\* performance_monitor.reset_metrics()
ResetMetrics ==
    /\ total_requests' = 0
    /\ successful_requests' = 0
    /\ failed_requests' = 0
    /\ total_response_time' = 0
    /\ rag_requests' = 0
    /\ basic_requests' = 0
    /\ request_history' = <<>>
    /\ recorded' = <<>>
    /\ mon_last' = "reset_metrics"
    /\ limit' = 0
    /\ history_ret' = NoResult
    /\ UNCHANGED max_history
    /\ UNCHANGED monitorFrame

\* A PerformanceMonitor of any capacity, just constructed
InitMonitor ==
    /\ RagIdle /\ ResetIdle /\ SingletonReady /\ DetectIdle /\ IngestIdle /\ GuardIdle
    /\ EndpointIdle
    /\ \E m \in 0..MaxHistory : NewMonitor(m)

NextMonitor ==
    \/ CallRecordRequest
    \/ CallGetRecentHistory
    \/ ResetMetrics

SpecMonitor == InitMonitor /\ [][NextMonitor]_vars

\* The last k entries of s
LastOf(s, k) == SubSeq(s, Len(s) - k + 1, Len(s))

\* C25: get_recent_history(limit) returns the min(limit, n) most recent entries
\* of a history of n requests, oldest first, for every limit >= 0, and never
\* more than limit entries
Orig_C25 ==
    mon_last = "get_recent_history" =>
        /\ history_ret.type = "list"
        /\ history_ret.value =
              LastOf(request_history, Min(limit, Len(request_history)))
        /\ Len(history_ret.value) <= limit

\* C30: the counters of a PerformanceMonitor add up (total = successful +
\* failed = rag + basic), the history holds the min(total_requests,
\* max_history) most recent requests in order, and reset_metrics leaves every
\* counter at 0 and the history empty
Thm_C30 ==
    /\ total_requests = successful_requests + failed_requests
    /\ total_requests = rag_requests + basic_requests
    /\ total_requests = Len(recorded)
    /\ request_history = LastOf(recorded, Min(total_requests, max_history))
    /\ mon_last = "reset_metrics" =>
          /\ total_requests = 0
          /\ successful_requests = 0
          /\ failed_requests = 0
          /\ total_response_time = 0
          /\ rag_requests = 0
          /\ basic_requests = 0
          /\ request_history = <<>>

\* More requests than the history holds were recorded, of both modes, some
\* failed and some successful: the oldest request is gone from the history
Wit_C30 ==
    /\ max_history >= 1
    /\ total_requests > max_history
    /\ rag_requests >= 1
    /\ basic_requests >= 1
    /\ successful_requests >= 1
    /\ failed_requests >= 1
    /\ request_history[1] # recorded[1]

----------------------------------------------------------------------------
(* main.py: the endpoint explain_code_rag *)

\* request.code: a code without secrets, one with an API key, one with an SSN
EndpointCodes == {PyCode, <<"api_key = 'abc'">>, <<"ssn = '123-45-6789'">>}

\* The parameters of "async def get_code_explanation(code: str)"
GetCodeExplanationParams == {"code"}

\* Binding of a call made with keyword arguments: a keyword that names no
\* parameter raises TypeError
Bind(params, kwargs) ==
    IF DOMAIN kwargs \subseteq params THEN "bound" ELSE "TypeError"

\* create_explanation_prompt(code), the prompt get_code_explanation builds
create_explanation_prompt(code) ==
    [template |-> "create_explanation_prompt", code |-> code, examples |-> <<>>]

\* combined_prompt: the few-shot prompt, the retrieved examples, the code
CombinedPrompt(code, docs) ==
    [template |-> "combined_prompt", code |-> code, examples |-> docs]

\* await get_code_explanation(**kwargs): what the call gives its caller and the
\* prompts it hands to client.chat.completions.create
get_code_explanation(kwargs, up) ==
    IF Bind(GetCodeExplanationParams, kwargs) = "TypeError"
    THEN [type |-> "raised", error |-> "TypeError", prompts |-> <<>>]
    ELSE IF kwargs.code = <<>>
    THEN [type |-> "dict", success |-> FALSE, error |-> "No code provided",
          prompts |-> <<>>]
    ELSE IF up
    THEN [type |-> "dict", success |-> TRUE, explanation |-> "explanation",
          prompts |-> <<create_explanation_prompt(kwargs.code)>>]
    ELSE [type |-> "dict", success |-> FALSE, error |-> "Error communicating",
          prompts |-> <<create_explanation_prompt(kwargs.code)>>]

endpointFrame == <<store, pc, retrieveLocals, result, outcome, calls, batch, before,
                   resetVars, singletonVars, detectVars, ingestVars, guardVars>>

\* POST /api/explain-rag arrives: start_time, success = False, error_msg = None,
\* retrieved_count = 0
ExplainCodeRag(code, up) ==
    /\ e_pc = "idle"
    /\ pc = "idle"
    /\ Len(recorded) < MaxRequests
    /\ e_pc' = "sanitize"
    /\ request_code' = code
    /\ code_to_use' = <<>>
    /\ retrieved_docs' = <<>>
    /\ e_retrieved_count' = 0
    /\ e_success' = FALSE
    /\ error_msg' = None
    /\ response' = NoResponse
    /\ llm_up' = up
    /\ llm_calls' = <<>>
    /\ e_mark' = Len(recorded)
    /\ UNCHANGED <<endpointFrame, monitorVars>>

CallExplainCodeRag == \E code \in EndpointCodes, up \in BOOLEAN : ExplainCodeRag(code, up)

\* An exception or an HTTPException leaves the try block: the request is
\* answered with status 500 and "finally" records the failed request
EndpointFail(msg) ==
    /\ e_pc' = "done"
    /\ error_msg' = msg
    /\ response' = [status |-> 500, explanation |-> "", detail |-> msg]
    /\ \E response_time \in ResponseTimes :
          RecordRequest("rag", response_time, FALSE, Len(request_code),
                        e_retrieved_count, msg)

\* sanitized_code, warnings = ethical_guard.sanitize_code(request.code);
\* code_to_use = sanitized_code if warnings else request.code
EndpointSanitize ==
    /\ e_pc = "sanitize"
    /\ LET sanitized == sanitize_code(request_code)
       IN  IF sanitized.type = "raised"
           THEN /\ EndpointFail(sanitized.error)
                /\ UNCHANGED code_to_use
           ELSE /\ code_to_use' = IF sanitized.warnings # <<>>
                                  THEN sanitized.sanitized
                                  ELSE request_code
                /\ e_pc' = "retrieve"
                /\ UNCHANGED <<error_msg, response, monitorVars>>
    /\ UNCHANGED <<request_code, retrieved_docs, e_retrieved_count, e_success, llm_up,
                   llm_calls, e_mark>>
    /\ UNCHANGED endpointFrame

\* rag = get_rag_system(), the global being set;
\* rag.retrieve(query_code=code_to_use, top_k=3, min_relevance=0.65) is called
EndpointRetrieve ==
    /\ e_pc = "retrieve"
    /\ ~IsNone(_rag_system)
    /\ Retrieve(code_to_use, 3, None, RELEVANCE_THRESHOLD, FALSE)

\* retrieved_docs = the list returned; retrieved_count = len(retrieved_docs)
EndpointRetrieved ==
    /\ e_pc = "retrieve"
    /\ pc = "done"
    /\ IF outcome = "returned"
       THEN /\ retrieved_docs' = ret
            /\ e_retrieved_count' = Len(ret)
            /\ e_pc' = "explain"
            /\ UNCHANGED <<error_msg, response, monitorVars>>
       ELSE /\ EndpointFail("retrieve raised")
            /\ UNCHANGED <<retrieved_docs, e_retrieved_count>>
    /\ UNCHANGED <<request_code, code_to_use, e_success, llm_up, llm_calls, e_mark>>
    /\ UNCHANGED endpointFrame

\* The retrieve call of the endpoint, or an ingestion before the request, returns
EndpointStepReturn ==
    /\ \/ e_pc \in {"explain", "done"} /\ pc = "done"
       \/ e_pc = "idle" /\ pc = "add_document_done"
    /\ Return

\* The prompts are built and get_code_explanation(code=code_to_use,
\* custom_prompt=combined_prompt, use_rag=True) is awaited; then the success
\* branch, or the HTTPException of the else branch, or "except Exception"
EndpointExplain ==
    /\ e_pc = "explain"
    /\ pc = "idle"
    /\ LET combined_prompt == CombinedPrompt(code_to_use, retrieved_docs)
           kwargs == [code |-> code_to_use, custom_prompt |-> combined_prompt,
                      use_rag |-> TRUE]
           explained == get_code_explanation(kwargs, llm_up)
       IN  /\ llm_calls' = llm_calls \o explained.prompts
           /\ IF explained.type = "dict" /\ explained.success
              THEN /\ e_success' = TRUE
                   /\ \E response_time \in ResponseTimes :
                         RecordRequest("rag", response_time, TRUE, Len(request_code),
                                       e_retrieved_count, None)
                   /\ response' = [status |-> 200, explanation |-> explained.explanation,
                                   detail |-> ""]
                   /\ e_pc' = "done"
                   /\ UNCHANGED error_msg
              ELSE /\ EndpointFail(explained.error)
                   /\ UNCHANGED e_success
    /\ UNCHANGED <<request_code, code_to_use, retrieved_docs, e_retrieved_count, llm_up,
                   e_mark>>
    /\ UNCHANGED endpointFrame

\* The client has its response
EndpointReturn ==
    /\ e_pc = "done"
    /\ pc = "idle"
    /\ e_pc' = "idle"
    /\ request_code' = <<>>
    /\ code_to_use' = <<>>
    /\ retrieved_docs' = <<>>
    /\ e_retrieved_count' = 0
    /\ e_success' = FALSE
    /\ error_msg' = None
    /\ response' = NoResponse
    /\ llm_up' = FALSE
    /\ llm_calls' = <<>>
    /\ e_mark' = 0
    /\ UNCHANGED <<endpointFrame, monitorVars>>

\* Documents are stored before the request arrives
EndpointEarlier ==
    /\ e_pc = "idle"
    /\ CallAddDocument

NextEndpoint ==
    \/ EndpointEarlier
    \/ CallExplainCodeRag
    \/ EndpointSanitize
    \/ EndpointRetrieve
    \/ RetrieveCount
    \/ RetrieveEmbed
    \/ RetrieveQuery
    \/ RetrieveFallback
    \/ RetrieveRank
    \/ RetrieveExcept
    \/ EndpointRetrieved
    \/ EndpointStepReturn
    \/ EndpointExplain
    \/ EndpointReturn

SpecEndpoint == Init /\ [][NextEndpoint]_vars

\* C24: a request to explain_code_rag whose sanitization and retrieval return
\* and whose completion call the Groq service would answer gets the explanation
\* with status 200, exactly one request of mode 'rag' with success = True is
\* recorded for it, and the client is called once, with the combined prompt
Orig_C24 ==
    (/\ e_pc = "done"
     /\ sanitize_code(request_code).type = "tuple"
     /\ error_msg # "retrieve raised"
     /\ llm_up) =>
        /\ response.status = 200
        /\ response.explanation = "explanation"
        /\ Len(recorded) = e_mark + 1
        /\ recorded[Len(recorded)].mode = "rag"
        /\ recorded[Len(recorded)].success
        /\ llm_calls = <<CombinedPrompt(code_to_use, retrieved_docs)>>

----------------------------------------------------------------------------
(* retrieve: the language filter and the fallback query *)

\* A stored document is labelled with this language
StoredIn(lang) == \E r \in store : Get(r.metadata, "language", "") = lang

\* C27: when a stored document has the resolved language of the query, which is
\* not 'unknown', every query of the call carries the filter (no fallback query
\* is issued) and every result has that language, also when fewer than top_k
\* results come back or none reaches min_relevance
Thm_C27 ==
    (/\ pc = "done"
     /\ Queries # <<>>
     /\ language # "unknown"
     /\ StoredIn(language)) =>
        /\ \A i \in 1..Len(Queries) : Queries[i].where = language
        /\ Len(Queries) = 1
        /\ outcome = "returned"
        /\ \A i \in 1..Len(ret) : Get(ret[i].metadata, "language", "") = language

\* A python and a java document are stored, the python query has a candidate
\* that stays under min_relevance: the call returns nothing and asks no second
\* query
Wit_C27 ==
    /\ pc = "done"
    /\ language = "python"
    /\ StoredIn("python")
    /\ StoredIn("java")
    /\ Len(Queries) = 1
    /\ ~Queries[1].raised
    /\ ranked_results # <<>>
    /\ outcome = "returned"
    /\ ret = <<>>

\* The positions of a retrieve call that has not returned to its caller
RetrievePcs == {"count", "embed", "query", "fallback", "rank", "except", "done"}

\* C28: retrieve is read-only: no step of a retrieve call, whether it returns
\* results, an empty list or meets an exception, changes the stored documents
\* (and so count()), the collection handle or the RAGSystem object; the call
\* issues at most two store queries, the second only after a first query that
\* carried a filter and returned zero candidates
Thm_C28 ==
    /\ [](pc \in RetrievePcs => Len(Queries) <= 2)
    /\ [][(pc \in RetrievePcs \/ pc' \in RetrievePcs) =>
             /\ store' = store
             /\ handle' = handle
             /\ _rag_system' = _rag_system]_vars
    /\ [][(pc \in RetrievePcs /\ pc' \in RetrievePcs /\ Len(Queries') = 2
              /\ Len(Queries) < 2) =>
             /\ Len(Queries) = 1
             /\ Queries[1].where # NoFilter
             /\ ~Queries[1].raised
             /\ results.documents = <<>>
             /\ Queries'[2].where = NoFilter]_vars

\* A call on a store without a document of the query's language: the filtered
\* query found nothing, the second query found a candidate that is returned
Wit_C28 ==
    /\ pc = "done"
    /\ Len(Queries) = 2
    /\ store # {}
    /\ outcome = "returned"
    /\ ret # <<>>

----------------------------------------------------------------------------
(* add_document and add_documents_batch on one document *)

\* The documents of DocPool, and two whose 'id' is present but '' or None
AddPool ==
    DocPool \cup
    { [code |-> PyCode, explanation |-> "e6", metadata |-> [language |-> "python"],
       id |-> EmptyId],
      [code |-> PyCode, explanation |-> "e7", metadata |-> [language |-> "python"],
       id |-> NoId] }

\* rag.add_document(doc['code'], doc['explanation'], doc['metadata'], doc['id'])
AddOne == \E doc \in AddPool : AddDocument(doc)

\* rag.add_documents_batch([doc])
AddOneBatch == \E doc \in AddPool : AddDocumentsBatch(<<WithMetadataId(doc, 1)>>)

NextAdd ==
    \/ AddOne
    \/ AddOneBatch
    \/ Return

SpecAdd == Init /\ [][NextAdd]_vars

\* C29: add_documents_batch on a one-document batch and add_document on that
\* document are equivalent: for the same answers of the embedder and of the
\* store, both return the same boolean and leave the store with the same id,
\* text and metadata, whether the document has an id, has none, or has an id
\* that is '' or None.  After either call the value and the store are those of
\* add_document: no store call and False after an embedding failure; otherwise
\* one store call with the given id, or the content's digest when the id is
\* missing, '' or None
Orig_C29 ==
    (pc \in {"add_done", "add_document_done"} /\ Len(batch) = 1) =>
        LET doc      == batch[1]
            vector   == calls[1].vector
            adds     == SelectOp(calls, "add")
            given    == Get(doc, "id", NoId)
            doc_id   == IF given \in {NoId, EmptyId} THEN Md5Prefix(doc.code) ELSE given
            metadata == Put(doc.metadata, "explanation", doc.explanation)
        IN  IF EmbeddingFailed(vector)
            THEN /\ adds = <<>>
                 /\ ret = FALSE
                 /\ store = before
            ELSE /\ Len(adds) = 1
                 /\ adds[1].ids = <<doc_id>>
                 /\ adds[1].documents = <<doc.code>>
                 /\ adds[1].metadatas = <<metadata>>
                 /\ ret = ~adds[1].raised
                 /\ store = IF adds[1].raised THEN before
                            ELSE StoreAdd(before, <<vector>>, <<doc.code>>, <<metadata>>,
                                          <<doc_id>>)

\* The same statement for the calls of add_document alone
AddDocumentAgrees == pc = "add_document_done" => Orig_C29

\* The same statement for documents whose embedding succeeds and whose id is
\* missing or a non-empty string
AgreeOnPlainDocuments ==
    (/\ pc = "add_done"
     /\ Len(batch) = 1
     /\ ~EmbeddingFailed(calls[1].vector)
     /\ Get(batch[1], "id", Md5Prefix(batch[1].code)) \notin {NoId, EmptyId}) => Orig_C29

----------------------------------------------------------------------------
(* retrieve: the language bonus within one call *)

\* language arguments of the calls with CloseCode: none, the language of two
\* offered documents, a language of no document
CloseLanguages == {None, "java", "go"}

\* retrieve(CloseCode, top_k, language, min_relevance = 0)
CallRetrieveClose ==
    \E k \in TopKs, lang \in CloseLanguages : Retrieve(CloseCode, k, lang, 0, FALSE)

NextBonus ==
    \/ CallAddDocument
    \/ CallRetrieveClose
    \/ RetrieveCount
    \/ RetrieveEmbed
    \/ RetrieveQuery
    \/ RetrieveFallback
    \/ RetrieveRank
    \/ RetrieveExcept
    \/ Return

SpecBonus == Init /\ [][NextBonus]_vars

\* A language label that no stored document carries
NoLanguage == "<no language>"

\* The score of a candidate without the language bonus, and with it
Unbonused(r) ==
    _calculate_relevance(query_code, r.code, r.metadata, r.distance, NoLanguage)

Bonused(r) ==
    _calculate_relevance(query_code, r.code, r.metadata, r.distance,
                         Get(r.metadata, "language", ""))

\* A candidate without its score
Candidate(r) == [code |-> r.code, metadata |-> r.metadata, distance |-> r.distance]

\* The ranking of the candidates when no candidate gets the bonus
UnbonusedRanking == _process_results(results, query_code, NoLanguage)

\* Within one call whose resolved language is not 'unknown', every candidate
\* got the bonus (the filtered query returned candidates) or none did (the
\* fallback query was asked), and a candidate without a language label did not
UniformBonus ==
    /\ \/ /\ Len(Queries) = 1
          /\ \A i \in 1..Len(ranked_results) :
                /\ "language" \in DOMAIN ranked_results[i].metadata
                /\ ranked_results[i].metadata["language"] = language
                /\ ranked_results[i].relevance_score = Bonused(ranked_results[i])
       \/ /\ Len(Queries) = 2
          /\ \A i \in 1..Len(ranked_results) :
                ranked_results[i].relevance_score = Unbonused(ranked_results[i])
    /\ \A i \in 1..Len(ranked_results) :
          "language" \notin DOMAIN ranked_results[i].metadata =>
              ranked_results[i].relevance_score = Unbonused(ranked_results[i])

\* C26 as stated: within one call whose resolved language is not 'unknown' the
\* bonus goes to every candidate or to none, never to a candidate without a
\* language label, and the candidates are ranked in the order they have without
\* the bonus
Orig_C26 ==
    (Ranked /\ language # "unknown") =>
        /\ UniformBonus
        /\ [i \in 1..Len(ranked_results) |-> Candidate(ranked_results[i])]
              = [i \in 1..Len(UnbonusedRanking) |-> Candidate(UnbonusedRanking[i])]

\* C26 amended: within one call whose resolved language is not 'unknown' the
\* bonus goes to every candidate or to none, never to a candidate without a
\* language label, and a candidate ranked before another has at least its score
\* without the bonus, unless the bonus clamps both scores to 1.0: those keep
\* the order in which the store returned them
Thm_C26 ==
    (Ranked /\ language # "unknown") =>
        /\ UniformBonus
        /\ \A i \in 1..Len(ranked_results), j \in 1..Len(ranked_results) :
              i < j =>
                 \/ Unbonused(ranked_results[i]) >= Unbonused(ranked_results[j])
                 \/ /\ ranked_results[i].relevance_score = Scale
                    /\ ranked_results[j].relevance_score = Scale
                    /\ \E a \in 1..Len(results.documents), b \in 1..Len(results.documents) :
                          /\ a < b
                          /\ results.documents[a] = ranked_results[i].code
                          /\ results.documents[b] = ranked_results[j].code

\* Two java candidates of the filtered query, both with the bonus: the one
\* with the lower score without the bonus is ranked first, both being clamped
Wit_C26 ==
    /\ Ranked
    /\ language = "java"
    /\ Len(Queries) = 1
    /\ Len(ranked_results) = 2
    /\ Unbonused(ranked_results[1]) < Unbonused(ranked_results[2])
    /\ Unbonused(ranked_results[2]) < Scale
    /\ ranked_results[1].relevance_score = Scale
    /\ ranked_results[2].relevance_score = Scale

====
